---- MODULE Spec2Model ----
(***************************************************************************)
(* A state-machine model of the rust.me MAL interpreter (step9_try):       *)
(* values (types.rs), environments (env.rs), the core namespace (core.rs)  *)
(* and the evaluator loop with its host call stack (step9_try.rs).         *)
(*                                                                         *)
(* Rust Strings are TLA+ strings.  Indices are 1-based here and 0-based in *)
(* the source: l[0] of the source is l[1] of the model.  A Rust panic      *)
(* (index out of bounds, todo!(), division by zero) aborts the process:    *)
(* status becomes "panic" and nothing runs afterwards.                     *)
(***************************************************************************)
EXTENDS Integers, Sequences, FiniteSets, TLC

VARIABLES
    envs,     \* heap of Env frames: envs[i] = [data, outer]; envs[1] is repl_env
    cells,    \* heap of atom cells (Rc<RefCell<MalType>>): cells[i] is the content
    stack,    \* host call stack: activations of eval, eval_ast, macroexpand, apply, swap
    ret,      \* the Result handed from a returning callee to its caller
    status,   \* "run" | "panic" | "exit0" | "exit1" (std::process::exit)
    lines,    \* forms the driver has still to feed to rep
    out,      \* the Results rep has produced so far, one per line
    prog,     \* the input of this run (name and parameters), fixed at Init
    lastOp    \* the last Env operation called directly on the Env API (SpecEnv)

vars == <<envs, cells, stack, ret, status, lines, out, prog, lastOp>>

----------------------------------------------------------------------------
(* Bounds of the model *)

\* the largest argument the self-recursive tail-call programs are started with
MaxN == 3
\* the largest number of Env frames SpecEnv creates
MaxFrames == 2
\* the largest number of arguments SpecEnv hands to Env::bind
MaxArgs == 3
\* the longest list among the forms handed to quasiquote and among the values
\* handed to the printer
MaxLen == 2
\* the longest string and symbol name handed to the printer
MaxStr == 2
\* the most calls of symbol, keyword, str and list that make one value
MaxMade == 2
\* the most words of a text handed to the reader
MaxWords == 3

----------------------------------------------------------------------------
(* types.rs: MalType *)

Nil == [t |-> "nil"]
Bool(b) == [t |-> "bool", b |-> b]
MalInt(i) == [t |-> "int", i |-> i]
Str(s) == [t |-> "str", s |-> s]
Sym(n) == [t |-> "sym", n |-> n]
List(l) == [t |-> "list", l |-> l]
Vector(l) == [t |-> "vec", l |-> l]
\* a HashMap as the function from its keys to their values
HashMap(m) == [t |-> "map", m |-> m]
Function(f) == [t |-> "builtin", f |-> f]
MalFunction(params, body, env, is_macro) ==
    [t |-> "fn", params |-> params, ast |-> body, env |-> env, is_macro |-> is_macro]
Atom(a) == [t |-> "atom", a |-> a]

IsSeqVal(v) == v.t \in {"list", "vec"}

\* impl PartialEq for MalType
RECURSIVE MalEq(_, _)
MalEq(x, y) ==
    CASE x.t = "nil" /\ y.t = "nil" -> TRUE
      [] x.t = "bool" /\ y.t = "bool" -> x.b = y.b
      [] x.t = "int" /\ y.t = "int" -> x.i = y.i
      [] x.t = "str" /\ y.t = "str" -> x.s = y.s
      [] x.t = "sym" /\ y.t = "sym" -> x.n = y.n
      [] IsSeqVal(x) /\ IsSeqVal(y) ->
            /\ Len(x.l) = Len(y.l)
            /\ \A k \in 1..Len(x.l) : MalEq(x.l[k], y.l[k])
      [] x.t = "map" /\ y.t = "map" ->
            /\ Cardinality(DOMAIN x.m) = Cardinality(DOMAIN y.m)
            /\ \A k \in DOMAIN x.m : \E j \in DOMAIN y.m :
                    MalEq(k, j) /\ MalEq(x.m[k], y.m[j])
      [] OTHER -> FALSE

(* errors.rs: MalErr; Throw(MalType) is the variant core.rs and step9_try.rs use *)
MalErr(kind, msg) == [kind |-> kind, msg |-> msg]
Throw(v) == [kind |-> "Throw", val |-> v]

\* impl Display for MalErr
ErrToString(e) ==
    CASE e.kind = "ReadErr" -> "Read error: " \o e.msg
      [] e.kind = "SymbolNotFound" -> e.msg \o " not found"
      [] e.kind = "InvalidLet" -> "Invalid let* construction: " \o e.msg
      [] e.kind = "InvalidDo" -> "Invalid do construction: " \o e.msg
      [] e.kind = "FunctionErr" -> "Does not compute: " \o e.msg
      [] e.kind = "MalFunctionErr" -> "Invalid fn* construction: " \o e.msg
      [] e.kind = "Generic" -> "Error: " \o e.msg

(* Result<MalType, MalErr>, and the outcome of a call that panicked *)
Ok(v) == [k |-> "ok", v |-> v]
Err(e) == [k |-> "err", e |-> e]
Panicked == [k |-> "panic"]
NoRet == [k |-> "none"]

(* printer.rs: pr_str(true), as Display for MalType uses it.  Strings of the    *)
(* model hold no quote, backslash or newline and no keyword prefix, so the      *)
(* readable rendering of a string is the string between quotes.                 *)
RECURSIVE PrStr(_, _)
RECURSIVE PrList(_, _, _)
PrList(l, k, cs) ==
    IF k > Len(l) THEN ""
    ELSE PrStr(l[k], cs) \o (IF k < Len(l) THEN " " ELSE "") \o PrList(l, k + 1, cs)
PrStr(v, cs) ==
    CASE v.t = "nil" -> "nil"
      [] v.t = "bool" -> IF v.b THEN "true" ELSE "false"
      [] v.t = "int" -> ToString(v.i)
      [] v.t = "str" -> "\"" \o v.s \o "\""
      [] v.t = "sym" -> v.n
      [] v.t = "list" -> "(" \o PrList(v.l, 1, cs) \o ")"
      [] v.t = "vec" -> "[" \o PrList(v.l, 1, cs) \o "]"
      [] v.t = "builtin" -> "#<fn " \o v.f \o ">"
      [] v.t = "fn" -> "#<function>"
      [] v.t = "atom" -> "(atom " \o PrStr(cs[v.a], cs) \o ")"

----------------------------------------------------------------------------
(* env.rs: Env, on a heap es of frames [data, outer]; outer = 0 is None *)

Symbols(es, e) == DOMAIN es[e].data

\* Env::new: the heap with a fresh frame appended; the new frame is Len(es) + 1
EnvNew(es, outer) == Append(es, [data |-> <<>>, outer |-> outer])

\* Env::find
RECURSIVE EnvFind(_, _, _)

\* a set that assigns in the frame that already defines the symbol, if any
EnvSetWhereDefined(es, e, symbol, value) ==
    LET f == EnvFind(es, e, symbol)
        at == IF f # 0 THEN f ELSE e
    IN  [es EXCEPT ![at].data = (symbol :> value) @@ @]

\* Env::set
EnvSet(es, e, symbol, value) ==
    [es EXCEPT ![e].data = (symbol :> value) @@ @]

\* a find that prefers the outermost frame holding the symbol
RECURSIVE EnvFindOutermost(_, _, _)
EnvFindOutermost(es, e, symbol) ==
    LET o == IF es[e].outer # 0 THEN EnvFindOutermost(es, es[e].outer, symbol)
             ELSE 0
    IN  IF o # 0 THEN o
        ELSE IF symbol \in DOMAIN es[e].data THEN e
        ELSE 0

\* Env::find: the frame that holds symbol, 0 for None
EnvFind(es, e, symbol) ==
    IF symbol \in DOMAIN es[e].data THEN e
    ELSE IF es[e].outer # 0 THEN EnvFind(es, es[e].outer, symbol)
    ELSE 0

\* Env::get
EnvGet(es, e, symbol) ==
    LET f == EnvFind(es, e, symbol)
    IN  IF f # 0 THEN Ok(es[f].data[symbol])
        ELSE Err(MalErr("SymbolNotFound", symbol))

\* Env::bind: [r, envs]; r is "ok", "err" (binds is no list or vector) or
\* "panic" (exprs[i] with i past the end of exprs)
RECURSIVE BindFrom(_, _, _, _, _, _)
BindFrom(es, e, b, exprs, i, cs) ==
    IF i > Len(b) THEN [r |-> "ok", envs |-> es]
    ELSE IF i > Len(exprs) THEN [r |-> "panic", envs |-> es]
    ELSE BindFrom(EnvSet(es, e, PrStr(b[i], cs), exprs[i]), e, b, exprs, i + 1, cs)

EnvBind(es, e, binds, exprs, cs) ==
    IF IsSeqVal(binds) THEN BindFrom(es, e, binds.l, exprs, 1, cs)
    ELSE [r |-> "err", envs |-> es]

BindErr == MalErr("Generic", "binds is not a list or vector")

\* the root of e's outer chain, as the eval arm walks it
RECURSIVE EnvRoot(_, _)
EnvRoot(es, e) == IF es[e].outer = 0 THEN e ELSE EnvRoot(es, es[e].outer)

----------------------------------------------------------------------------
(* step9_try.rs: quasiquote.  PanicV stands for a panic inside it (l[1] or   *)
(* elt[1] of a one-element list).                                            *)

PanicV == [t |-> "panic"]

RECURSIVE quasiquote(_)

\* a qq_inner without the splice-unquote case: every element is consed
RECURSIVE qq_inner_cons_only(_)
qq_inner_cons_only(l) ==
    IF Len(l) = 0 THEN List(<<>>)
    ELSE LET q == quasiquote(Head(l))
             rest == qq_inner_cons_only(Tail(l))
         IN  IF q = PanicV \/ rest = PanicV THEN PanicV
             ELSE List(<<Sym("cons"), q, rest>>)

RECURSIVE qq_inner(_)
qq_inner(l) ==
    IF Len(l) = 0 THEN List(<<>>)
    ELSE LET elt == Head(l)
             rest == qq_inner(Tail(l))
         IN  IF elt.t = "list" /\ Len(elt.l) > 0 /\ MalEq(elt.l[1], Sym("splice-unquote"))
             THEN IF Len(elt.l) < 2 \/ rest = PanicV THEN PanicV
                  ELSE List(<<Sym("concat"), elt.l[2], rest>>)
             ELSE LET q == quasiquote(elt)
                  IN  IF q = PanicV \/ rest = PanicV THEN PanicV
                      ELSE List(<<Sym("cons"), q, rest>>)

quasiquote(ast) ==
    CASE ast.t = "list" ->
            IF Len(ast.l) > 0 /\ ast.l[1] = Sym("unquote")
            THEN IF Len(ast.l) < 2 THEN PanicV ELSE ast.l[2]
            ELSE qq_inner(ast.l)
      [] ast.t = "vec" ->
            LET q == qq_inner(ast.l)
            IN  IF q = PanicV THEN PanicV ELSE List(<<Sym("vec"), q>>)
      [] ast.t = "sym" -> List(<<Sym("quote"), ast>>)
      [] OTHER -> ast

----------------------------------------------------------------------------
(* types.rs: Add, Sub, Mul, Div for MalType.  Anything but two Ints runs     *)
(* into todo!(), and lhs / 0 is a Rust division by zero: both panic.         *)

Abs(i) == IF i < 0 THEN -i ELSE i

\* i64 division truncates toward zero
TruncDiv(a, b) ==
    LET q == Abs(a) \div Abs(b)
    IN  IF (a < 0) # (b < 0) THEN -q ELSE q

MalAdd(x, y) == IF x.t = "int" /\ y.t = "int" THEN MalInt(x.i + y.i) ELSE PanicV
MalSub(x, y) == IF x.t = "int" /\ y.t = "int" THEN MalInt(x.i - y.i) ELSE PanicV
MalMul(x, y) == IF x.t = "int" /\ y.t = "int" THEN MalInt(x.i * y.i) ELSE PanicV

MalDiv(x, y) ==
    IF x.t = "int" /\ y.t = "int"
    THEN IF y.i = 0 THEN PanicV ELSE MalInt(TruncDiv(x.i, y.i))
    ELSE PanicV

ArithOp(op, x, y) ==
    CASE op = "+" -> MalAdd(x, y)
      [] op = "-" -> MalSub(x, y)
      [] op = "*" -> MalMul(x, y)
      [] op = "/" -> MalDiv(x, y)

(* core.rs *)

FunctionErr(msg) == Err(MalErr("FunctionErr", msg))

\* the fold of accumulate, from element k on; a panic of op ends it
RECURSIVE Fold(_, _, _, _)
Fold(op, acc, args, k) ==
    IF acc = PanicV THEN PanicV
    ELSE IF k > Len(args) THEN acc
    ELSE Fold(op, ArithOp(op, acc, args[k]), args, k + 1)

accumulate(args, op) ==
    IF Len(args) < 2 THEN FunctionErr("Expected two or more arguments")
    ELSE LET v == Fold(op, args[1], args, 2)
         IN  IF v = PanicV THEN Panicked ELSE Ok(v)

compare(args) ==
    IF Len(args) # 2 THEN FunctionErr("Expected exactly two arguments")
    ELSE Ok(Bool(MalEq(args[1], args[2])))

cons(args) ==
    IF Len(args) # 2 THEN FunctionErr("Expected exactly two arguments")
    ELSE IF IsSeqVal(args[2]) THEN Ok(List(<<args[1]>> \o args[2].l))
    ELSE FunctionErr("Expected a list/vector as the second parameter to cons")

RECURSIVE ConcatFrom(_, _, _)
ConcatFrom(args, k, v) ==
    IF k > Len(args) THEN Ok(List(v))
    ELSE IF IsSeqVal(args[k]) THEN ConcatFrom(args, k + 1, v \o args[k].l)
    ELSE FunctionErr("concat does not support non-list items")

concat(args) == ConcatFrom(args, 1, <<>>)

vec(args) ==
    IF Len(args) < 1 THEN Panicked
    ELSE IF IsSeqVal(args[1]) THEN Ok(Vector(args[1].l))
    ELSE FunctionErr("Expected a list/vector to convert into vector")

nth(list, index) ==
    IF IsSeqVal(list) /\ index.t = "int"
    THEN IF index.i >= 0 /\ index.i < Len(list.l) THEN Ok(list.l[index.i + 1])
         ELSE FunctionErr("list index out of range")
    ELSE FunctionErr("Expected a list and index")

first(list) ==
    LET r == nth(list, MalInt(0))
    IN  IF r.k = "ok" THEN r ELSE Ok(Nil)

deref(atom, cs) ==
    IF atom.t = "atom" THEN Ok(cs[atom.a])
    ELSE FunctionErr("Cannot deref a non-atom")

\* a reset that writes to a clone of the cell and returns the new value
reset_on_clone(atom, new_val, cs) ==
    IF atom.t = "atom"
    THEN [r |-> Ok(new_val), cells |-> cs]
    ELSE [r |-> FunctionErr("Cannot reset a non-atom"), cells |-> cs]

\* reset: [r, cells]
reset(atom, new_val, cs) ==
    IF atom.t = "atom"
    THEN LET cs2 == [cs EXCEPT ![atom.a] = new_val]
         IN  [r |-> Ok(cs2[atom.a]), cells |-> cs2]
    ELSE [r |-> FunctionErr("Cannot reset a non-atom"), cells |-> cs]

\* types.rs atom(): [r, cells] with a fresh cell holding a
atom(a, cs) == [r |-> Ok(Atom(Len(cs) + 1)), cells |-> Append(cs, a)]

\* the builtins of ns() that never call back into the evaluator
\* is_variant, for the variants of the values of this model
is_variant(value, variant) ==
    Ok(Bool(CASE value.t = "list" /\ variant = "list" -> TRUE
              [] value.t = "atom" /\ variant = "atom" -> TRUE
              [] value.t = "nil" /\ variant = "nil" -> TRUE
              [] value.t = "bool" /\ variant = "true" -> value.b
              [] value.t = "bool" /\ variant = "false" -> ~value.b
              [] value.t = "sym" /\ variant = "symbol" -> TRUE
              [] value.t = "int" /\ variant = "number" -> TRUE
              [] value.t = "fn" /\ variant = "macro" -> value.is_macro
              [] value.t = "fn" /\ variant = "function" -> ~value.is_macro
              [] value.t = "builtin" /\ variant = "function" -> TRUE
              [] value.t = "vec" /\ variant = "vector" -> TRUE
              [] IsSeqVal(value) /\ variant = "sequential" -> TRUE
              [] IsSeqVal(value) /\ variant = "empty" -> value.l = <<>>
              [] OTHER -> FALSE))

\* the is_variant predicates ns() registers, by name
Variants ==
    [x \in {"list?", "empty?", "nil?", "true?", "false?", "symbol?", "vector?",
            "sequential?", "atom?", "number?", "fn?", "macro?"} |->
        CASE x = "list?" -> "list"
          [] x = "empty?" -> "empty"
          [] x = "nil?" -> "nil"
          [] x = "true?" -> "true"
          [] x = "false?" -> "false"
          [] x = "symbol?" -> "symbol"
          [] x = "vector?" -> "vector"
          [] x = "sequential?" -> "sequential"
          [] x = "atom?" -> "atom"
          [] x = "number?" -> "number"
          [] x = "fn?" -> "function"
          [] x = "macro?" -> "macro"]

PureNames ==
    {"+", "-", "*", "/", "=", "list", "first", "cons", "concat", "vec",
     "atom", "deref", "reset!", "throw"} \cup DOMAIN Variants

\* ns(): every builtin of the model; swap! and apply apply an argument, so
\* they run as host frames of their own (ApplySwap, ApplyApply below)
CoreNames == PureNames \cup {"swap!", "apply"}

\* the closures ns() registers, applied to a: [r, cells]; a[0] of a missing
\* argument panics
CoreFn(f, a, cs) ==
    LET pure(r) == [r |-> r, cells |-> cs]
    IN  CASE f \in {"+", "-", "*", "/"} -> pure(accumulate(a, f))
          [] f = "=" -> pure(compare(a))
          [] f = "list" -> pure(Ok(List(a)))
          [] f = "first" -> pure(IF Len(a) < 1 THEN Panicked ELSE first(a[1]))
          [] f = "cons" -> pure(cons(a))
          [] f = "concat" -> pure(concat(a))
          [] f = "vec" -> pure(vec(a))
          [] f = "atom" -> IF Len(a) < 1 THEN pure(Panicked) ELSE atom(a[1], cs)
          [] f = "deref" -> pure(IF Len(a) < 1 THEN Panicked ELSE deref(a[1], cs))
          [] f = "reset!" -> IF Len(a) < 2 THEN pure(Panicked) ELSE reset(a[1], a[2], cs)
          [] f = "throw" -> pure(IF Len(a) < 1 THEN Panicked ELSE Err(Throw(a[1])))
          [] f \in DOMAIN Variants ->
                pure(IF Len(a) < 1 THEN Panicked ELSE is_variant(a[1], Variants[f]))

----------------------------------------------------------------------------
(* The host call stack.  A frame is one activation of a host function:      *)
(*   fn  - "eval", "eval_ast", "macroexpand" (step9_try.rs),                 *)
(*         "apply" (MalType::apply, types.rs), "swap" (core.rs)              *)
(*   pc  - where the activation stands: "loop"/"start" before its next       *)
(*         step, otherwise the call it is waiting in                         *)
(*   ast, env - the locals of the same name (for apply and swap: ast is f)   *)
(*   i, acc   - loop index and results so far (apply, swap: acc is args)     *)
(*   x        - let_env of the let* arm; the atom of swap                    *)

Frame(fn, pc, ast, env, i, acc, x) ==
    [fn |-> fn, pc |-> pc, ast |-> ast, env |-> env, i |-> i, acc |-> acc, x |-> x]

EvalFrame(ast, env) == Frame("eval", "loop", ast, env, 0, <<>>, 0)
EvalAstFrame(ast, env) == Frame("eval_ast", "start", ast, env, 1, <<>>, 0)
MacroexpandFrame(ast, env) == Frame("macroexpand", "loop", ast, env, 0, <<>>, 0)
ApplyFrame(f, args) == Frame("apply", "start", f, 0, 0, args, 0)

Top == stack[Len(stack)]
Running == status = "run" /\ stack # <<>>
At(fn, pc) == Running /\ Top.fn = fn /\ Top.pc = pc /\ ret.k = "none"
Back(fn, pc) == Running /\ Top.fn = fn /\ Top.pc = pc /\ ret.k = "ok"

Popped == SubSeq(stack, 1, Len(stack) - 1)
Replaced(f) == [stack EXCEPT ![Len(stack)] = f]
\* the top frame waits at pc while callee runs
Calling(pc, callee) == Append(Replaced([Top EXCEPT !.pc = pc]), callee)
\* continue: the top frame goes round its loop again with a new ast and env
Continue(ast, env) == Replaced(EvalFrame(ast, env))

Driver == <<lines, out, prog, lastOp>>

Go(st, es, cs, r) ==
    /\ stack' = st
    /\ envs' = es
    /\ cells' = cs
    /\ ret' = r
    /\ UNCHANGED <<status, lines, out, prog, lastOp>>

Call(pc, callee) == Go(Calling(pc, callee), envs, cells, NoRet)
Return(r) == Go(Popped, envs, cells, r)
Abort ==
    /\ status' = "panic"
    /\ UNCHANGED <<envs, cells, stack, ret, lines, out, prog, lastOp>>

\* the number of nested activations of eval on the host stack
EvalDepth == Cardinality({k \in 1..Len(stack) : stack[k].fn = "eval"})

\* no list is a macro call: a macro at the head is applied like a function,
\* after the evaluation of its arguments
is_macro_call_never(ast, env) == FALSE

----------------------------------------------------------------------------
(* step9_try.rs: is_macro_call, macroexpand *)

is_macro_call(ast, env) ==
    /\ ast.t = "list"
    /\ Len(ast.l) > 0
    /\ ast.l[1].t = "sym"
    /\ LET r == EnvGet(envs, env, ast.l[1].n)
       IN  r.k = "ok" /\ r.v.t = "fn" /\ r.v.is_macro

\* while is_macro_call: mal_func.apply(l[1..])
MacroexpandApply ==
    /\ At("macroexpand", "loop")
    /\ is_macro_call(Top.ast, Top.env)
    /\ LET l == Top.ast.l
           mal_func == EnvGet(envs, Top.env, PrStr(l[1], cells)).v
       IN  Call("applied", ApplyFrame(mal_func, Tail(l)))

\* ast = mal_func.apply(..)?  and round the while loop
MacroexpandApplied ==
    /\ Back("macroexpand", "applied")
    /\ Go(Replaced(MacroexpandFrame(ret.v, Top.env)), envs, cells, NoRet)

\* Ok(ast) once the head is no macro
MacroexpandDone ==
    /\ At("macroexpand", "loop")
    /\ ~is_macro_call(Top.ast, Top.env)
    /\ Return(Ok(Top.ast))

----------------------------------------------------------------------------
(* step9_try.rs: eval.  Every action below is one arm of the loop, or the   *)
(* continuation of an arm after a nested call has returned.                 *)

SpecialForms ==
    {"def!", "defmacro!", "let*", "do", "if", "fn*", "eval", "quote",
     "quasiquote", "quasiquoteexpand", "macroexpand", "try*"}

\* loop head: ast = macroexpand(ast, env)? when the head is a macro
EvalMacroexpand ==
    /\ At("eval", "loop")
    /\ is_macro_call(Top.ast, Top.env)
    /\ Call("mx", MacroexpandFrame(Top.ast, Top.env))

EvalMacroexpanded ==
    /\ Back("eval", "mx")
    /\ Go(Continue(ret.v, Top.env), envs, cells, NoRet)

\* past macroexpand (which leaves an ast that is no macro call as it is)
Dispatch == At("eval", "loop") /\ ~is_macro_call(Top.ast, Top.env)
\* the arm for the head hd of a non-empty list
Arm(hd) ==
    /\ Dispatch
    /\ Top.ast.t = "list"
    /\ Len(Top.ast.l) > 0
    /\ PrStr(Top.ast.l[1], cells) = hd

\* _ => return eval_ast(&ast, &env)
EvalNotList ==
    /\ Dispatch
    /\ Top.ast.t # "list"
    /\ Call("tail", EvalAstFrame(Top.ast, Top.env))

\* if l.len() == 0 { return Ok(ast) }
EvalEmptyList ==
    /\ Dispatch
    /\ Top.ast.t = "list"
    /\ Len(Top.ast.l) = 0
    /\ Return(Ok(Top.ast))

\* "def!": eval(l[2], env)?
EvalDef ==
    /\ Arm("def!")
    /\ IF Len(Top.ast.l) < 3 THEN Abort
       ELSE Call("def", EvalFrame(Top.ast.l[3], Top.env))

\* env.set(l[1].to_string(), result); return Ok(result)
EvalDefSet ==
    /\ Back("eval", "def")
    /\ Go(Popped, EnvSet(envs, Top.env, PrStr(Top.ast.l[2], cells), ret.v), cells, ret)

\* "defmacro!": eval(l[2], env)?
EvalDefmacro ==
    /\ Arm("defmacro!")
    /\ IF Len(Top.ast.l) < 3 THEN Abort
       ELSE Call("defmacro", EvalFrame(Top.ast.l[3], Top.env))

\* a defmacro! that sets the flag on the closure itself: every binding of the
\* closure in its environment becomes a macro
EvalDefmacroSetInPlace ==
    /\ Back("eval", "defmacro")
    /\ IF ret.v.t = "fn"
       THEN LET new_macro == MalFunction(ret.v.params, ret.v.ast, ret.v.env, TRUE)
                d == envs[ret.v.env].data
                marked == [s \in DOMAIN d |-> IF d[s] = ret.v THEN new_macro ELSE d[s]]
            IN  Go(Popped,
                   EnvSet([envs EXCEPT ![ret.v.env].data = marked], ret.v.env,
                          PrStr(Top.ast.l[2], cells), new_macro),
                   cells, Ok(new_macro))
       ELSE Return(Err(MalErr("Generic", "cannot set non-function as a macro")))

\* the match on result: the pattern's env (the closure's) shadows the arm's env,
\* so it is the closure's env that env.set writes to
EvalDefmacroSet ==
    /\ Back("eval", "defmacro")
    /\ IF ret.v.t = "fn"
       THEN LET new_macro == MalFunction(ret.v.params, ret.v.ast, ret.v.env, TRUE)
            IN  Go(Popped,
                   EnvSet(envs, ret.v.env, PrStr(Top.ast.l[2], cells), new_macro),
                   cells, Ok(new_macro))
       ELSE Return(Err(MalErr("Generic", "cannot set non-function as a macro")))

\* "let*": let_env, then the checks of the binding list
EvalLet ==
    /\ Arm("let*")
    /\ IF Len(Top.ast.l) < 2 THEN Abort
       ELSE LET es == EnvNew(envs, Top.env)
                bl == Top.ast.l[2]
            IN  IF ~IsSeqVal(bl)
                THEN Go(Popped, es, cells,
                        Err(MalErr("InvalidLet",
                            "let* expects a list or vector as the first parameter")))
                ELSE IF Len(bl.l) % 2 # 0
                THEN Go(Popped, es, cells,
                        Err(MalErr("InvalidLet",
                            "Odd number of parameters in the binding list")))
                ELSE Go(Replaced([Top EXCEPT !.pc = "let", !.x = Len(es), !.i = 1]),
                        es, cells, NoRet)

\* a let* whose binding values are evaluated in the enclosing environment
EvalLetBindInEnclosing ==
    /\ At("eval", "let")
    /\ 2 * Top.i <= Len(Top.ast.l[2].l)
    /\ Call("let_wait", EvalFrame(Top.ast.l[2].l[2 * Top.i], Top.env))

\* for w in binding_list.chunks(2): eval(w[1], let_env)?
EvalLetBind ==
    /\ At("eval", "let")
    /\ 2 * Top.i <= Len(Top.ast.l[2].l)
    /\ Call("let_wait", EvalFrame(Top.ast.l[2].l[2 * Top.i], Top.x))

\* let_env.set(w[0].to_string(), ..)
EvalLetSet ==
    /\ Back("eval", "let_wait")
    /\ LET w0 == Top.ast.l[2].l[2 * Top.i - 1]
       IN  Go(Replaced([Top EXCEPT !.pc = "let", !.i = @ + 1]),
              EnvSet(envs, Top.x, PrStr(w0, cells), ret.v), cells, NoRet)

\* ast = l[2]; env = let_env; continue
EvalLetBody ==
    /\ At("eval", "let")
    /\ 2 * Top.i > Len(Top.ast.l[2].l)
    /\ IF Len(Top.ast.l) < 3 THEN Abort
       ELSE Go(Continue(Top.ast.l[3], Top.x), envs, cells, NoRet)

\* "do": eval_ast(&list!(l[1..l.len() - 1]), &env)?; the slice 1..0 of (do) panics
EvalDo ==
    /\ Arm("do")
    /\ IF Len(Top.ast.l) < 2 THEN Abort
       ELSE Call("do", EvalAstFrame(List(SubSeq(Top.ast.l, 2, Len(Top.ast.l) - 1)),
                                    Top.env))

\* ast = l.last(); continue
EvalDoLast ==
    /\ Back("eval", "do")
    /\ IF ret.v.t = "list"
       THEN Go(Continue(Top.ast.l[Len(Top.ast.l)], Top.env), envs, cells, NoRet)
       ELSE Return(Err(MalErr("InvalidDo", "Invalid do construction")))

\* "if": eval(l[1], env)?
EvalIf ==
    /\ Arm("if")
    /\ IF Len(Top.ast.l) < 2 THEN Abort
       ELSE Call("if", EvalFrame(Top.ast.l[2], Top.env))

\* ast = l.get(3) or Nil when the condition is nil or false, else l[2]; continue
EvalIfBranch ==
    /\ Back("eval", "if")
    /\ LET l == Top.ast.l
       IN  IF ret.v = Nil \/ ret.v = Bool(FALSE)
           THEN Go(Continue(IF Len(l) >= 4 THEN l[4] ELSE Nil, Top.env),
                   envs, cells, NoRet)
           ELSE IF Len(l) < 3 THEN Abort
           ELSE Go(Continue(l[3], Top.env), envs, cells, NoRet)

\* "fn*": [params @ (List | Vector), body] makes a closure over env
EvalFn ==
    /\ Arm("fn*")
    /\ LET l == Top.ast.l
       IN  IF Len(l) = 3 /\ IsSeqVal(l[2])
           THEN Return(Ok(MalFunction(l[2], l[3], Top.env, FALSE)))
           ELSE Return(Err(MalErr("MalFunctionErr", "fn* expects two parameters")))

\* "eval": ast = eval(l[1], env)?
EvalEvalForm ==
    /\ Arm("eval")
    /\ IF Len(Top.ast.l) < 2 THEN Abort
       ELSE Call("evalform", EvalFrame(Top.ast.l[2], Top.env))

\* an eval form that evaluates the resulting form in the current environment
EvalEvalInCurrent ==
    /\ Back("eval", "evalform")
    /\ Go(Continue(ret.v, Top.env), envs, cells, NoRet)

\* while let Some(e) = env.outer { env = e }; continue
EvalEvalRoot ==
    /\ Back("eval", "evalform")
    /\ Go(Continue(ret.v, EnvRoot(envs, Top.env)), envs, cells, NoRet)

\* "quote" => Ok(l[1])
EvalQuote ==
    /\ Arm("quote")
    /\ IF Len(Top.ast.l) < 2 THEN Abort
       ELSE Return(Ok(Top.ast.l[2]))

\* "quasiquote": ast = quasiquote(&l[1]); continue
EvalQuasiquote ==
    /\ Arm("quasiquote")
    /\ IF Len(Top.ast.l) < 2 THEN Abort
       ELSE LET q == quasiquote(Top.ast.l[2])
            IN  IF q = PanicV THEN Abort
                ELSE Go(Continue(q, Top.env), envs, cells, NoRet)

\* a quasiquoteexpand that returns its argument as it stands
EvalQuasiquoteexpandRaw ==
    /\ Arm("quasiquoteexpand")
    /\ IF Len(Top.ast.l) < 2 THEN Abort ELSE Return(Ok(Top.ast.l[2]))

\* "quasiquoteexpand" => Ok(quasiquote(&l[1]))
EvalQuasiquoteexpand ==
    /\ Arm("quasiquoteexpand")
    /\ IF Len(Top.ast.l) < 2 THEN Abort
       ELSE LET q == quasiquote(Top.ast.l[2])
            IN  IF q = PanicV THEN Abort ELSE Return(Ok(q))

\* "macroexpand" => macroexpand(l[1], env)
EvalMacroexpandForm ==
    /\ Arm("macroexpand")
    /\ IF Len(Top.ast.l) < 2 THEN Abort
       ELSE Call("tail", MacroexpandFrame(Top.ast.l[2], Top.env))

\* "try*": match eval(l[1], env)
EvalTry ==
    /\ Arm("try*")
    /\ IF Len(Top.ast.l) < 2 THEN Abort
       ELSE Call("try", EvalFrame(Top.ast.l[2], Top.env))

\* res => res: the body's Ok, or its Err when the form ends after the body
EvalTryPass ==
    /\ Running /\ Top.fn = "eval" /\ Top.pc = "try"
    /\ \/ ret.k = "ok"
       \/ ret.k = "err" /\ Len(Top.ast.l) <= 2
    /\ Return(ret)

\* a catch* that binds the rendering of a thrown value, not the value
CatchPayloadRendered(e) ==
    IF e.kind = "Throw" THEN Str(PrStr(e.val, <<>>)) ELSE Str(ErrToString(e))

\* the payload bound by catch*: the thrown value, or the message of the error
CatchPayload(e) == IF e.kind = "Throw" THEN e.val ELSE Str(ErrToString(e))

IsCatch(c) == c.t = "list" /\ Len(c.l) > 0 /\ MalEq(c.l[1], Sym("catch*"))

\* Err(e) if l.len() > 2, and l[2] is (catch* ..): bind the payload in
\* catch_env and eval(c[2], catch_env)
EvalTryCatch ==
    /\ Running /\ Top.fn = "eval" /\ Top.pc = "try"
    /\ ret.k = "err" /\ Len(Top.ast.l) > 2
    /\ IsCatch(Top.ast.l[3])
    /\ LET c == Top.ast.l[3].l
           es == EnvNew(envs, Top.env)
           catch_env == Len(es)
       IN  IF Len(c) < 2 THEN Abort
           ELSE LET b == EnvBind(es, catch_env, List(<<c[2]>>),
                                 <<CatchPayload(ret.e)>>, cells)
                IN  IF Len(c) < 3 THEN Abort
                    ELSE Go(Calling("tail", EvalFrame(c[3], catch_env)),
                            b.envs, cells, NoRet)

\* Err(e) if l.len() > 2, and l[2] is no (catch* ..)
EvalTryNoCatch ==
    /\ Running /\ Top.fn = "eval" /\ Top.pc = "try"
    /\ ret.k = "err" /\ Len(Top.ast.l) > 2
    /\ ~IsCatch(Top.ast.l[3])
    /\ Return(Err(MalErr("Generic", "expected catch* branch as a list")))

\* _ => eval_ast(&ast, &env)?: the head and the arguments
EvalApply ==
    /\ Dispatch
    /\ Top.ast.t = "list"
    /\ Len(Top.ast.l) > 0
    /\ PrStr(Top.ast.l[1], cells) \notin SpecialForms
    /\ Call("args", EvalAstFrame(Top.ast, Top.env))

\* MalType::Function(_) => f.apply(args)
EvalApplyFunction ==
    /\ Back("eval", "args")
    /\ ret.v.l[1].t = "builtin"
    /\ Call("tail", ApplyFrame(ret.v.l[1], Tail(ret.v.l)))

\* a closure applied with dynamic scope: fn_env is a child of the caller's env
EvalApplyMalFunctionDynamic ==
    /\ Back("eval", "args")
    /\ ret.v.l[1].t = "fn"
    /\ LET f == ret.v.l[1]
           es == EnvNew(envs, Top.env)
           b == EnvBind(es, Len(es), f.params, Tail(ret.v.l), cells)
       IN  CASE b.r = "panic" -> Abort
             [] b.r = "err" -> Go(Popped, b.envs, cells, Err(BindErr))
             [] b.r = "ok" -> Go(Continue(f.ast, Len(es)), b.envs, cells, NoRet)

\* a closure applied by a host call of eval on its body: return eval(ast, fn_env)
EvalApplyMalFunctionNested ==
    /\ Back("eval", "args")
    /\ ret.v.l[1].t = "fn"
    /\ LET f == ret.v.l[1]
           es == EnvNew(envs, f.env)
           b == EnvBind(es, Len(es), f.params, Tail(ret.v.l), cells)
       IN  CASE b.r = "panic" -> Abort
             [] b.r = "err" -> Go(Popped, b.envs, cells, Err(BindErr))
             [] b.r = "ok" -> Go(Calling("tail", EvalFrame(f.ast, Len(es))),
                                 b.envs, cells, NoRet)

\* MalType::MalFunction: bind the parameters in fn_env, a child of the
\* closure's env; ast = body; env = fn_env; continue
EvalApplyMalFunction ==
    /\ Back("eval", "args")
    /\ ret.v.l[1].t = "fn"
    /\ LET f == ret.v.l[1]
           es == EnvNew(envs, f.env)
           b == EnvBind(es, Len(es), f.params, Tail(ret.v.l), cells)
       IN  CASE b.r = "panic" -> Abort
             [] b.r = "err" -> Go(Popped, b.envs, cells, Err(BindErr))
             [] b.r = "ok" -> Go(Continue(f.ast, Len(es)), b.envs, cells, NoRet)

\* _ => Err("Cannot apply non-function")
EvalApplyOther ==
    /\ Back("eval", "args")
    /\ ret.v.l[1].t \notin {"builtin", "fn"}
    /\ Return(Err(MalErr("Generic", "Cannot apply non-function")))

----------------------------------------------------------------------------
(* step9_try.rs: eval_ast *)

\* MalType::Symbol(s) => env.get(s)
EvalAstSymbol ==
    /\ At("eval_ast", "start")
    /\ Top.ast.t = "sym"
    /\ Return(EnvGet(envs, Top.env, Top.ast.n))

\* an eval_ast that evaluates the elements from the last to the first
EvalAstNextFromRight ==
    /\ At("eval_ast", "start")
    /\ IsSeqVal(Top.ast)
    /\ Top.i <= Len(Top.ast.l)
    /\ Call("elem", EvalFrame(Top.ast.l[Len(Top.ast.l) + 1 - Top.i], Top.env))

\* for ast in l.iter(): eval(ast, env)?
EvalAstNext ==
    /\ At("eval_ast", "start")
    /\ IsSeqVal(Top.ast)
    /\ Top.i <= Len(Top.ast.l)
    /\ Call("elem", EvalFrame(Top.ast.l[Top.i], Top.env))

\* results.push(..)
EvalAstPush ==
    /\ Back("eval_ast", "elem")
    /\ Go(Replaced([Top EXCEPT !.pc = "start", !.i = @ + 1,
                               !.acc = Append(@, ret.v)]),
          envs, cells, NoRet)

\* Ok(list!(results)) or Ok(vector!(results))
EvalAstDone ==
    /\ At("eval_ast", "start")
    /\ IsSeqVal(Top.ast)
    /\ Top.i > Len(Top.ast.l)
    /\ Return(Ok(IF Top.ast.t = "list" THEN List(Top.acc) ELSE Vector(Top.acc)))

\* _ => Ok(ast.clone())
EvalAstOther ==
    /\ At("eval_ast", "start")
    /\ Top.ast.t \notin {"sym", "list", "vec"}
    /\ Return(Ok(Top.ast))

----------------------------------------------------------------------------
(* types.rs: MalType::apply, and core.rs: swap, which calls it *)

\* MalType::Function(f) => f(args), for the builtins that return at once
ApplyFunction ==
    /\ At("apply", "start")
    /\ Top.ast.t = "builtin"
    /\ Top.ast.f \in PureNames
    /\ LET c == CoreFn(Top.ast.f, Top.acc, cells)
       IN  IF c.r = Panicked THEN Abort
           ELSE Go(Popped, envs, c.cells, c.r)

\* a swap that assigns to a copy of the cell's content: the cell keeps its value
swap_store_on_copy(cs, a, v) == cs

\* swap, line 186, once f.apply(args) has returned Ok: the cell after
\* *a.borrow_mut() = v
swap_store(cs, a, v) == [cs EXCEPT ![a] = v]

\* "swap!": swap(&a[0], &a[1], a.get(2..)); args.insert(0, a.borrow().clone());
\* f.apply(args) is evaluated before a.borrow_mut() is taken
ApplySwap ==
    /\ At("apply", "start")
    /\ Top.ast = Function("swap!")
    /\ LET a == Top.acc
       IN  IF Len(a) < 2 THEN Abort
           ELSE IF a[1].t # "atom"
           THEN Return(FunctionErr("Cannot swap a non-atom"))
           ELSE LET args == <<cells[a[1].a]>> \o SubSeq(a, 3, Len(a))
                IN  Go(Append(Replaced(Frame("swap", "applied", a[2], 0, 0,
                                             args, a[1].a)),
                              ApplyFrame(a[2], args)),
                       envs, cells, NoRet)

\* *a.borrow_mut() = f.apply(args)?; Ok(a.borrow().clone())
SwapStore ==
    /\ Back("swap", "applied")
    /\ LET cs == swap_store(cells, Top.x, ret.v)
       IN  Go(Popped, envs, cs, Ok(cs[Top.x]))

\* an apply that hands over the elements of the last argument first
ApplyApplySeqFirst ==
    /\ At("apply", "start")
    /\ Top.ast = Function("apply")
    /\ LET a == Top.acc
       IN  IF Len(a) < 2 \/ ~IsSeqVal(a[Len(a)])
           THEN Return(FunctionErr("Expected a list of args"))
           ELSE Call("tail", ApplyFrame(a[1], a[Len(a)].l
                                              \o SubSeq(a, 2, Len(a) - 1)))

\* "apply": core.rs apply(a): f is the first argument, list the last of the
\* others; f.unwrap().apply(the arguments between them, then the list's)
ApplyApply ==
    /\ At("apply", "start")
    /\ Top.ast = Function("apply")
    /\ LET a == Top.acc
       IN  IF Len(a) < 2 \/ ~IsSeqVal(a[Len(a)])
           THEN Return(FunctionErr("Expected a list of args"))
           ELSE Call("tail", ApplyFrame(a[1], SubSeq(a, 2, Len(a) - 1)
                                              \o a[Len(a)].l))

\* MalType::MalFunction: fn_env.bind(params, args)?; eval(ast, fn_env)
ApplyMalFunction ==
    /\ At("apply", "start")
    /\ Top.ast.t = "fn"
    /\ LET f == Top.ast
           es == EnvNew(envs, f.env)
           b == EnvBind(es, Len(es), f.params, Top.acc, cells)
       IN  CASE b.r = "panic" -> Abort
             [] b.r = "err" -> Go(Popped, b.envs, cells, Err(BindErr))
             [] b.r = "ok" -> Go(Calling("tail", EvalFrame(f.ast, Len(es))),
                                 b.envs, cells, NoRet)

\* _ => Err("Cannot apply non-function")
ApplyOther ==
    /\ At("apply", "start")
    /\ Top.ast.t \notin {"builtin", "fn"}
    /\ Return(Err(MalErr("Generic", "Cannot apply non-function")))

----------------------------------------------------------------------------
(* returns *)

\* the pcs at which the caller applies `?` to the callee's Result
QuestionPcs ==
    {"mx", "def", "defmacro", "let_wait", "do", "if", "evalform", "args",
     "elem", "applied"}

\* a swap! that puts back the value the atom had when it was called before it
\* returns the error of f
PropagateRestoring ==
    /\ Running
    /\ ret.k = "err"
    /\ Top.pc \in QuestionPcs
    /\ Go(Popped, envs,
          IF Top.fn = "swap" THEN swap_store(cells, Top.x, Top.acc[1]) ELSE cells,
          ret)

\* `?` on an Err: the caller returns it
Propagate ==
    /\ Running
    /\ ret.k = "err"
    /\ Top.pc \in QuestionPcs
    /\ Return(ret)

\* a call in return position: the caller returns the callee's Result
TailReturn ==
    /\ Running
    /\ ret.k \in {"ok", "err"}
    /\ Top.pc = "tail"
    /\ Return(ret)

----------------------------------------------------------------------------
(* step9_try.rs: main and rep.  The lines are given as the forms read_str   *)
(* returns for them; out keeps rep's Result for each line.                  *)

\* rep(&line, &repl_env): eval(r, repl_env)
RepEval ==
    /\ status = "run"
    /\ stack = <<>>
    /\ ret.k = "none"
    /\ lines # <<>>
    /\ stack' = <<EvalFrame(Head(lines), 1)>>
    /\ lines' = Tail(lines)
    /\ UNCHANGED <<envs, cells, ret, status, out, prog, lastOp>>

\* the driver was started with a file name (arg1 is Some(f))
ScriptMode == prog.name \in {"script_ok", "script_err"}

\* a loop that starts the next line from an environment holding ns() alone,
\* and no atoms, after an error
RepOutputFresh ==
    /\ status = "run"
    /\ stack = <<>>
    /\ ret.k # "none"
    /\ ~ScriptMode
    /\ out' = Append(out, ret)
    /\ ret' = NoRet
    /\ envs' = IF ret.k = "err"
               THEN <<[data |-> [f \in CoreNames |-> Function(f)], outer |-> 0]>>
               ELSE envs
    /\ cells' = IF ret.k = "err" THEN <<>> ELSE cells
    /\ UNCHANGED <<stack, status, lines, prog, lastOp>>

\* if let Some(f) = arg1: Ok(_) => exit(0); Err(e) => eprintln, exit(1)
ScriptExit ==
    /\ status = "run"
    /\ stack = <<>>
    /\ ret.k # "none"
    /\ ScriptMode
    /\ out' = IF ret.k = "err" THEN Append(out, ret) ELSE out
    /\ status' = IF ret.k = "err" THEN "exit1" ELSE "exit0"
    /\ ret' = NoRet
    /\ UNCHANGED <<envs, cells, stack, lines, prog, lastOp>>

\* the loop of main takes rep's output, Ok or Err, and reads the next line
RepOutput ==
    /\ status = "run"
    /\ stack = <<>>
    /\ ret.k # "none"
    /\ ~ScriptMode
    /\ out' = Append(out, ret)
    /\ ret' = NoRet
    /\ UNCHANGED <<envs, cells, stack, status, lines, prog, lastOp>>

----------------------------------------------------------------------------
(* The inputs: the programs the driver is started on, each a sequence of     *)
(* lines given as forms.  p.n is the parameter of the programs that have one. *)

\* the sequences over S of length at most n
SeqsUpTo(S, n) == UNION {[1..k -> S] : k \in 0..n}

\* the elements of the forms handed to quasiquote: 1, a, (unquote a),
\* (splice-unquote b), (unquote (swap! c + 1)), (unquote zz)
QqElements ==
    {MalInt(1), Sym("a"),
     List(<<Sym("unquote"), Sym("a")>>),
     List(<<Sym("splice-unquote"), Sym("b")>>),
     List(<<Sym("unquote"), List(<<Sym("swap!"), Sym("c"), Sym("+"), MalInt(1)>>)>>),
     List(<<Sym("unquote"), Sym("zz")>>)}

\* forms with a nested list or vector: ((a (unquote a)) 1),
\* ([a (splice-unquote b)]), [[1] (unquote a)], ("s" nil true)
QqNested ==
    {List(<<List(<<Sym("a"), List(<<Sym("unquote"), Sym("a")>>)>>), MalInt(1)>>),
     List(<<Vector(<<Sym("a"), List(<<Sym("splice-unquote"), Sym("b")>>)>>)>>),
     Vector(<<Vector(<<MalInt(1)>>), List(<<Sym("unquote"), Sym("a")>>)>>),
     List(<<Str("s"), Nil, Bool(TRUE)>>)}

\* the forms handed to quasiquote and quasiquoteexpand
QqForms ==
    {MalInt(1), Sym("a"), Nil, List(<<Sym("unquote"), Sym("a")>>)}
    \cup {List(l) : l \in SeqsUpTo(QqElements, MaxLen)}
    \cup {Vector(l) : l \in SeqsUpTo(QqElements, 1)}
    \cup QqNested

QqForm(p) == p.form

\* form wrapped in k nested let* forms, each binding y: (let* (y k) .. form ..)
RECURSIVE LetNest(_, _)
LetNest(k, form) ==
    IF k = 0 THEN form
    ELSE List(<<Sym("let*"), List(<<Sym("y"), MalInt(k)>>), LetNest(k - 1, form)>>)

SwapPlus(p) ==
    <<\* (def! a (atom 10))
      List(<<Sym("def!"), Sym("a"), List(<<Sym("atom"), MalInt(10)>>)>>),
      \* (swap! a + 1 2)
      List(<<Sym("swap!"), Sym("a"), Sym("+"), MalInt(1), MalInt(2)>>),
      \* (deref a)
      List(<<Sym("deref"), Sym("a")>>)
    >>

SwapShared(p) ==
    <<\* (def! a (atom 0))
      List(<<Sym("def!"), Sym("a"), List(<<Sym("atom"), MalInt(0)>>)>>),
      \* (def! b a)
      List(<<Sym("def!"), Sym("b"), Sym("a")>>),
      \* (def! v (list a 7))
      List(<<Sym("def!"), Sym("v"), List(<<Sym("list"), Sym("a"),
      MalInt(7)>>)>>),
      \* (swap! b (fn* (x) (+ x 1)))
      List(<<Sym("swap!"), Sym("b"), List(<<Sym("fn*"), List(<<Sym("x")>>),
      List(<<Sym("+"), Sym("x"), MalInt(1)>>)>>)>>),
      \* (list (deref a) (deref b) (deref (first v)))
      List(<<Sym("list"), List(<<Sym("deref"), Sym("a")>>),
      List(<<Sym("deref"), Sym("b")>>), List(<<Sym("deref"),
      List(<<Sym("first"), Sym("v")>>)>>)>>),
      \* (let* (c (atom 0)) (do (swap! c (fn* (x) (+ x 1))) (deref c)))
      List(<<Sym("let*"), List(<<Sym("c"), List(<<Sym("atom"), MalInt(0)>>)>>),
      List(<<Sym("do"), List(<<Sym("swap!"), Sym("c"), List(<<Sym("fn*"),
      List(<<Sym("x")>>), List(<<Sym("+"), Sym("x"), MalInt(1)>>)>>)>>),
      List(<<Sym("deref"), Sym("c")>>)>>)>>)
    >>

SwapReenter(p) ==
    <<\* (def! a (atom 1))
      List(<<Sym("def!"), Sym("a"), List(<<Sym("atom"), MalInt(1)>>)>>),
      \* (swap! a (fn* (x) (do (swap! a + 10) (+ (deref a) 100))))
      List(<<Sym("swap!"), Sym("a"), List(<<Sym("fn*"), List(<<Sym("x")>>),
      List(<<Sym("do"), List(<<Sym("swap!"), Sym("a"), Sym("+"), MalInt(10)>>),
      List(<<Sym("+"), List(<<Sym("deref"), Sym("a")>>),
      MalInt(100)>>)>>)>>)>>),
      \* (deref a)
      List(<<Sym("deref"), Sym("a")>>)
    >>

SwapReset(p) ==
    <<\* (def! a (atom 1))
      List(<<Sym("def!"), Sym("a"), List(<<Sym("atom"), MalInt(1)>>)>>),
      \* (swap! a (fn* (x) (do (reset! a 5) (list x (deref a)))))
      List(<<Sym("swap!"), Sym("a"), List(<<Sym("fn*"), List(<<Sym("x")>>),
      List(<<Sym("do"), List(<<Sym("reset!"), Sym("a"), MalInt(5)>>),
      List(<<Sym("list"), Sym("x"), List(<<Sym("deref"),
      Sym("a")>>)>>)>>)>>)>>),
      \* (deref a)
      List(<<Sym("deref"), Sym("a")>>)
    >>

SwapBad(p) ==
    <<\* (swap! 1 +)
      List(<<Sym("swap!"), MalInt(1), Sym("+")>>),
      \* (swap! (atom 1) 2)
      List(<<Sym("swap!"), List(<<Sym("atom"), MalInt(1)>>), MalInt(2)>>),
      \* (swap! (atom 1) (fn* (x) (throw x)))
      List(<<Sym("swap!"), List(<<Sym("atom"), MalInt(1)>>), List(<<Sym("fn*"),
      List(<<Sym("x")>>), List(<<Sym("throw"), Sym("x")>>)>>)>>)
    >>

TryOk(p) ==
    <<\* (try* 7 (catch* e (def! h 1)))
      List(<<Sym("try*"), MalInt(7), List(<<Sym("catch*"), Sym("e"),
      List(<<Sym("def!"), Sym("h"), MalInt(1)>>)>>)>>),
      \* h
      Sym("h"),
      \* (try* 8)
      List(<<Sym("try*"), MalInt(8)>>)
    >>

TryThrow(p) ==
    <<\* (try* (throw (list 1 2)) (catch* e e))
      List(<<Sym("try*"), List(<<Sym("throw"), List(<<Sym("list"), MalInt(1),
      MalInt(2)>>)>>), List(<<Sym("catch*"), Sym("e"), Sym("e")>>)>>),
      \* (try* (throw 3) (catch* e (def! h (list e))))
      List(<<Sym("try*"), List(<<Sym("throw"), MalInt(3)>>),
      List(<<Sym("catch*"), Sym("e"), List(<<Sym("def!"), Sym("h"),
      List(<<Sym("list"), Sym("e")>>)>>)>>)>>),
      \* h
      Sym("h"),
      \* e
      Sym("e")
    >>

TryError(p) ==
    <<\* (try* zz (catch* e e))
      List(<<Sym("try*"), Sym("zz"), List(<<Sym("catch*"), Sym("e"),
      Sym("e")>>)>>),
      \* (try* (+ 1) (catch* e e))
      List(<<Sym("try*"), List(<<Sym("+"), MalInt(1)>>), List(<<Sym("catch*"),
      Sym("e"), Sym("e")>>)>>),
      \* (try* (1 2) (catch* e e))
      List(<<Sym("try*"), List(<<MalInt(1), MalInt(2)>>), List(<<Sym("catch*"),
      Sym("e"), Sym("e")>>)>>),
      \* (try* (let* (a) a) (catch* e e))
      List(<<Sym("try*"), List(<<Sym("let*"), List(<<Sym("a")>>), Sym("a")>>),
      List(<<Sym("catch*"), Sym("e"), Sym("e")>>)>>),
      \* (try* (fn* 1) (catch* e e))
      List(<<Sym("try*"), List(<<Sym("fn*"), MalInt(1)>>),
      List(<<Sym("catch*"), Sym("e"), Sym("e")>>)>>)
    >>

TryNoCatch(p) ==
    <<\* (try* (throw 3))
      List(<<Sym("try*"), List(<<Sym("throw"), MalInt(3)>>)>>),
      \* (try* zz)
      List(<<Sym("try*"), Sym("zz")>>),
      \* (try* zz 5)
      List(<<Sym("try*"), Sym("zz"), MalInt(5)>>),
      \* (try* (throw 3) (zz e e))
      List(<<Sym("try*"), List(<<Sym("throw"), MalInt(3)>>), List(<<Sym("zz"),
      Sym("e"), Sym("e")>>)>>)
    >>

TryType(p) ==
    <<\* (try* (+ 1 "a") (catch* e e))
      List(<<Sym("try*"), List(<<Sym("+"), MalInt(1), Str("a")>>),
      List(<<Sym("catch*"), Sym("e"), Sym("e")>>)>>)
    >>

TryDiv(p) ==
    <<\* (try* (/ 1 0) (catch* e e))
      List(<<Sym("try*"), List(<<Sym("/"), MalInt(1), MalInt(0)>>),
      List(<<Sym("catch*"), Sym("e"), Sym("e")>>)>>)
    >>

TryArityFn(p) ==
    <<\* (try* ((fn* (a) a)) (catch* e e))
      List(<<Sym("try*"), List(<<List(<<Sym("fn*"), List(<<Sym("a")>>),
      Sym("a")>>)>>), List(<<Sym("catch*"), Sym("e"), Sym("e")>>)>>)
    >>

TryArityBuiltin(p) ==
    <<\* (try* (deref) (catch* e e))
      List(<<Sym("try*"), List(<<Sym("deref")>>), List(<<Sym("catch*"),
      Sym("e"), Sym("e")>>)>>)
    >>

DivLines(p) ==
    <<\* (/ 7 2)
      List(<<Sym("/"), MalInt(7), MalInt(2)>>),
      \* (/ -7 2)
      List(<<Sym("/"), MalInt(-7), MalInt(2)>>),
      \* (/ 8 2 2)
      List(<<Sym("/"), MalInt(8), MalInt(2), MalInt(2)>>),
      \* (/ N N)
      List(<<Sym("/"), MalInt(p.n), MalInt(p.n)>>)
    >>

DivZero(p) ==
    <<\* (/ 8 N+1 0)
      List(<<Sym("/"), MalInt(8), MalInt(p.n + 1), MalInt(0)>>)
    >>

Lexical(p) ==
    <<(IF p.n = 0 THEN Nil ELSE List(<<Sym("def!"), Sym("x"),
      MalInt(p.n + 1)>>)),
      \* ((let* (x 1) (fn* () x)))
      List(<<List(<<Sym("let*"), List(<<Sym("x"), MalInt(1)>>),
      List(<<Sym("fn*"), List(<<>>), Sym("x")>>)>>)>>),
      \* (let* (x 2) ((let* (x 1) (fn* () x))))
      List(<<Sym("let*"), List(<<Sym("x"), MalInt(2)>>),
      List(<<List(<<Sym("let*"), List(<<Sym("x"), MalInt(1)>>),
      List(<<Sym("fn*"), List(<<>>), Sym("x")>>)>>)>>)>>),
      \* (def! g (let* (x 1) (fn* () x)))
      List(<<Sym("def!"), Sym("g"), List(<<Sym("let*"), List(<<Sym("x"),
      MalInt(1)>>), List(<<Sym("fn*"), List(<<>>), Sym("x")>>)>>)>>),
      \* (let* (x 2) (g))
      List(<<Sym("let*"), List(<<Sym("x"), MalInt(2)>>), List(<<Sym("g")>>)>>),
      \* (def! h (fn* () y))
      List(<<Sym("def!"), Sym("h"), List(<<Sym("fn*"), List(<<>>),
      Sym("y")>>)>>),
      \* (let* (y 2) (h))
      List(<<Sym("let*"), List(<<Sym("y"), MalInt(2)>>), List(<<Sym("h")>>)>>)
    >>

LoopIf(p) ==
    <<\* (def! f (fn* (n) (if (= n 0) 0 (f (- n 1)))))
      List(<<Sym("def!"), Sym("f"), List(<<Sym("fn*"), List(<<Sym("n")>>),
      List(<<Sym("if"), List(<<Sym("="), Sym("n"), MalInt(0)>>), MalInt(0),
      List(<<Sym("f"), List(<<Sym("-"), Sym("n"), MalInt(1)>>)>>)>>)>>)>>),
      \* (f N)
      List(<<Sym("f"), MalInt(p.n)>>)
    >>

LoopAll(p) ==
    <<\* (def! f (fn* (n) (if (= n 0) 0 (let* (m (- n 1)) (do nil (quasiquote (unquote (eval (list f m)))))))))
      List(<<Sym("def!"), Sym("f"), List(<<Sym("fn*"), List(<<Sym("n")>>),
      List(<<Sym("if"), List(<<Sym("="), Sym("n"), MalInt(0)>>), MalInt(0),
      List(<<Sym("let*"), List(<<Sym("m"), List(<<Sym("-"), Sym("n"),
      MalInt(1)>>)>>), List(<<Sym("do"), Nil, List(<<Sym("quasiquote"),
      List(<<Sym("unquote"), List(<<Sym("eval"), List(<<Sym("list"), Sym("f"),
      Sym("m")>>)>>)>>)>>)>>)>>)>>)>>)>>),
      \* (f N)
      List(<<Sym("f"), MalInt(p.n)>>)
    >>

LoopNonTail(p) ==
    <<\* (def! f (fn* (n) (if (= n 0) 0 (+ 1 (f (- n 1))))))
      List(<<Sym("def!"), Sym("f"), List(<<Sym("fn*"), List(<<Sym("n")>>),
      List(<<Sym("if"), List(<<Sym("="), Sym("n"), MalInt(0)>>), MalInt(0),
      List(<<Sym("+"), MalInt(1), List(<<Sym("f"), List(<<Sym("-"), Sym("n"),
      MalInt(1)>>)>>)>>)>>)>>)>>),
      \* (f N)
      List(<<Sym("f"), MalInt(p.n)>>)
    >>

MacroLines(p) ==
    <<\* (defmacro! m (fn* (a) (list (quote if) a 1 2)))
      List(<<Sym("defmacro!"), Sym("m"), List(<<Sym("fn*"), List(<<Sym("a")>>),
      List(<<Sym("list"), List(<<Sym("quote"), Sym("if")>>), Sym("a"),
      MalInt(1), MalInt(2)>>)>>)>>),
      \* (m true)
      List(<<Sym("m"), Bool(TRUE)>>),
      \* (macroexpand (m false))
      List(<<Sym("macroexpand"), List(<<Sym("m"), Bool(FALSE)>>)>>),
      \* (defmacro! k 1)
      List(<<Sym("defmacro!"), Sym("k"), MalInt(1)>>),
      \* (defmacro! w (fn* (a) (throw a)))
      List(<<Sym("defmacro!"), Sym("w"), List(<<Sym("fn*"), List(<<Sym("a")>>),
      List(<<Sym("throw"), Sym("a")>>)>>)>>),
      \* (w 1)
      List(<<Sym("w"), MalInt(1)>>)
    >>

Misc(p) ==
    <<\* [1 (+ 1 2)]
      Vector(<<MalInt(1), List(<<Sym("+"), MalInt(1), MalInt(2)>>)>>),
      \* (quasiquoteexpand (1 (unquote x) (splice-unquote y) [z]))
      List(<<Sym("quasiquoteexpand"), List(<<MalInt(1), List(<<Sym("unquote"),
      Sym("x")>>), List(<<Sym("splice-unquote"), Sym("y")>>),
      Vector(<<Sym("z")>>)>>)>>),
      \* ()
      List(<<>>),
      \* (1 2)
      List(<<MalInt(1), MalInt(2)>>),
      \* (quasiquote (1 (unquote (+ 1 2)) (splice-unquote (list 3 4)) 5))
      List(<<Sym("quasiquote"), List(<<MalInt(1), List(<<Sym("unquote"),
      List(<<Sym("+"), MalInt(1), MalInt(2)>>)>>),
      List(<<Sym("splice-unquote"), List(<<Sym("list"), MalInt(3),
      MalInt(4)>>)>>), MalInt(5)>>)>>),
      \* (not nil)
      List(<<Sym("not"), Nil>>),
      \* (if false 1)
      List(<<Sym("if"), Bool(FALSE), MalInt(1)>>),
      \* (if nil 1 2)
      List(<<Sym("if"), Nil, MalInt(1), MalInt(2)>>),
      \* (- 5 1 1)
      List(<<Sym("-"), MalInt(5), MalInt(1), MalInt(1)>>),
      \* (* 2 3)
      List(<<Sym("*"), MalInt(2), MalInt(3)>>),
      \* (cons 1 [2])
      List(<<Sym("cons"), MalInt(1), Vector(<<MalInt(2)>>)>>),
      \* (concat (list 1) [2])
      List(<<Sym("concat"), List(<<Sym("list"), MalInt(1)>>),
      Vector(<<MalInt(2)>>)>>),
      \* (vec (list 1))
      List(<<Sym("vec"), List(<<Sym("list"), MalInt(1)>>)>>),
      \* (first ())
      List(<<Sym("first"), List(<<>>)>>),
      \* (= (list 1 2) [1 2])
      List(<<Sym("="), List(<<Sym("list"), MalInt(1), MalInt(2)>>),
      Vector(<<MalInt(1), MalInt(2)>>)>>),
      \* (reset! 1 2)
      List(<<Sym("reset!"), MalInt(1), MalInt(2)>>),
      \* (deref 1)
      List(<<Sym("deref"), MalInt(1)>>),
      \* (cons 1 2)
      List(<<Sym("cons"), MalInt(1), MalInt(2)>>),
      \* (let* 5 1)
      List(<<Sym("let*"), MalInt(5), MalInt(1)>>),
      \* (eval (list + 1 2))
      List(<<Sym("eval"), List(<<Sym("list"), Sym("+"), MalInt(1),
      MalInt(2)>>)>>),
      \* ((fn* 5 1) 1)
      List(<<List(<<Sym("fn*"), MalInt(5), MalInt(1)>>), MalInt(1)>>),
      \* (do 1 zz 2)
      List(<<Sym("do"), MalInt(1), Sym("zz"), MalInt(2)>>),
      \* *ARGV*
      Sym("*ARGV*")
    >>

MiscPanic(p) ==
    <<<<List(<<Sym("do")>>), List(<<Sym("def!"), Sym("a")>>),
      List(<<Sym("if")>>), List(<<Sym("quote")>>), List(<<Sym("let*"),
      List(<<>>)>>), List(<<Sym("quasiquote"), List(<<Sym("unquote")>>)>>),
      List(<<Sym("if"), Bool(TRUE)>>), List(<<Sym("atom")>>),
      List(<<Sym("try*"), Sym("zz"), List(<<Sym("catch*")>>)>>)>>[p.n + 1]>>

Arity(p) ==
    <<\* ((fn* (a b) (def! ran 1)) 1 .. N): N of the two arguments
      List(<<List(<<Sym("fn*"), List(<<Sym("a"), Sym("b")>>),
      List(<<Sym("def!"), Sym("ran"),
      MalInt(1)>>)>>)>> \o [k \in 1..p.n |-> MalInt(k)])
    >>

LetLines(p) ==
    <<\* (def! a N+2)
      List(<<Sym("def!"), Sym("a"), MalInt(p.n + 2)>>),
      \* (let* (a 1 b (+ a 2)) (* a b))
      List(<<Sym("let*"), List(<<Sym("a"), MalInt(1), Sym("b"),
      List(<<Sym("+"), Sym("a"), MalInt(2)>>)>>), List(<<Sym("*"), Sym("a"),
      Sym("b")>>)>>),
      \* a
      Sym("a"),
      \* b
      Sym("b"),
      \* (let* [c a a 7 d (+ a c)] d)
      List(<<Sym("let*"), Vector(<<Sym("c"), Sym("a"), Sym("a"), MalInt(7),
      Sym("d"), List(<<Sym("+"), Sym("a"), Sym("c")>>)>>), Sym("d")>>),
      \* (let* (a 1 b) a)
      List(<<Sym("let*"), List(<<Sym("a"), MalInt(1), Sym("b")>>), Sym("a")>>),
      \* (let* (q 1) (def! z q))
      List(<<Sym("let*"), List(<<Sym("q"), MalInt(1)>>), List(<<Sym("def!"),
      Sym("z"), Sym("q")>>)>>),
      \* z
      Sym("z"),
      \* a
      Sym("a")
    >>

EvalRootLines(p) ==
    <<\* (def! y 7)
      List(<<Sym("def!"), Sym("y"), MalInt(7)>>),
      \* (let* (y 2) (eval (quote y)))
      List(<<Sym("let*"), List(<<Sym("y"), MalInt(2)>>), List(<<Sym("eval"),
      List(<<Sym("quote"), Sym("y")>>)>>)>>),
      \* (let* (y 2 f (quote y)) (eval f))
      List(<<Sym("let*"), List(<<Sym("y"), MalInt(2), Sym("f"),
      List(<<Sym("quote"), Sym("y")>>)>>), List(<<Sym("eval"), Sym("f")>>)>>),
      \* (let* (w 2) (eval (quote w)))
      List(<<Sym("let*"), List(<<Sym("w"), MalInt(2)>>), List(<<Sym("eval"),
      List(<<Sym("quote"), Sym("w")>>)>>)>>),
      \* ((fn* (y) (eval (quote y))) 3)
      List(<<List(<<Sym("fn*"), List(<<Sym("y")>>), List(<<Sym("eval"),
      List(<<Sym("quote"), Sym("y")>>)>>)>>), MalInt(3)>>),
      \* (let* (a 1) (let* (b 2) (eval (quote (def! z 5)))))
      List(<<Sym("let*"), List(<<Sym("a"), MalInt(1)>>), List(<<Sym("let*"),
      List(<<Sym("b"), MalInt(2)>>), List(<<Sym("eval"), List(<<Sym("quote"),
      List(<<Sym("def!"), Sym("z"), MalInt(5)>>)>>)>>)>>)>>),
      \* z
      Sym("z"),
      \* (eval (quote y)) inside N nested let* forms that bind y
      LetNest(p.n, List(<<Sym("eval"), List(<<Sym("quote"), Sym("y")>>)>>))
    >>

DefmacroLines(p) ==
    <<\* (def! f (fn* (a) (list (quote if) a 1 2)))
      List(<<Sym("def!"), Sym("f"), List(<<Sym("fn*"), List(<<Sym("a")>>),
      List(<<Sym("list"), List(<<Sym("quote"), Sym("if")>>), Sym("a"),
      MalInt(1), MalInt(2)>>)>>)>>),
      \* (defmacro! m f)
      List(<<Sym("defmacro!"), Sym("m"), Sym("f")>>),
      \* (macro? m)
      List(<<Sym("macro?"), Sym("m")>>),
      \* (fn? m)
      List(<<Sym("fn?"), Sym("m")>>),
      \* (macro? f)
      List(<<Sym("macro?"), Sym("f")>>),
      \* (fn? f)
      List(<<Sym("fn?"), Sym("f")>>),
      \* (f true)
      List(<<Sym("f"), Bool(TRUE)>>),
      \* (m true)
      List(<<Sym("m"), Bool(TRUE)>>),
      \* (defmacro! k 1)
      List(<<Sym("defmacro!"), Sym("k"), MalInt(1)>>),
      \* k
      Sym("k"),
      \* (fn? +)
      List(<<Sym("fn?"), Sym("+")>>),
      \* (macro? 1)
      List(<<Sym("macro?"), MalInt(1)>>)
    >>

MacroOrder(p) ==
    <<\* (def! log (atom 0))
      List(<<Sym("def!"), Sym("log"), List(<<Sym("atom"), MalInt(0)>>)>>),
      \* (defmacro! m (fn* (x y) (do (swap! log + 1) x)))
      List(<<Sym("defmacro!"), Sym("m"), List(<<Sym("fn*"), List(<<Sym("x"),
      Sym("y")>>), List(<<Sym("do"), List(<<Sym("swap!"), Sym("log"), Sym("+"),
      MalInt(1)>>), Sym("x")>>)>>)>>),
      \* (m (swap! log + 10) (swap! log + 100))
      List(<<Sym("m"), List(<<Sym("swap!"), Sym("log"), Sym("+"),
      MalInt(10)>>), List(<<Sym("swap!"), Sym("log"), Sym("+"),
      MalInt(100)>>)>>),
      \* (deref log)
      List(<<Sym("deref"), Sym("log")>>),
      \* (macroexpand (m (swap! log + 10) zz))
      List(<<Sym("macroexpand"), List(<<Sym("m"), List(<<Sym("swap!"),
      Sym("log"), Sym("+"), MalInt(10)>>), Sym("zz")>>)>>),
      \* (deref log)
      List(<<Sym("deref"), Sym("log")>>),
      \* (defmacro! m2 (fn* (x) (list (quote m) x 0)))
      List(<<Sym("defmacro!"), Sym("m2"), List(<<Sym("fn*"),
      List(<<Sym("x")>>), List(<<Sym("list"), List(<<Sym("quote"), Sym("m")>>),
      Sym("x"), MalInt(0)>>)>>)>>),
      \* (m2 7)
      List(<<Sym("m2"), MalInt(7)>>),
      \* (macroexpand (m2 7))
      List(<<Sym("macroexpand"), List(<<Sym("m2"), MalInt(7)>>)>>),
      \* (let* (v 5) (m v zz))
      List(<<Sym("let*"), List(<<Sym("v"), MalInt(5)>>), List(<<Sym("m"),
      Sym("v"), Sym("zz")>>)>>),
      \* (deref log)
      List(<<Sym("deref"), Sym("log")>>)
    >>

OrderLines(p) ==
    <<\* (def! log (atom (list)))
      List(<<Sym("def!"), Sym("log"), List(<<Sym("atom"),
      List(<<Sym("list")>>)>>)>>),
      \* (def! t (fn* (k) (do (swap! log (fn* (v) (cons k v))) k)))
      List(<<Sym("def!"), Sym("t"), List(<<Sym("fn*"), List(<<Sym("k")>>),
      List(<<Sym("do"), List(<<Sym("swap!"), Sym("log"), List(<<Sym("fn*"),
      List(<<Sym("v")>>), List(<<Sym("cons"), Sym("k"), Sym("v")>>)>>)>>),
      Sym("k")>>)>>)>>),
      \* ((do (t 0) list) (t 1) .. (t N))
      List(<<List(<<Sym("do"), List(<<Sym("t"), MalInt(0)>>),
      Sym("list")>>)>> \o [k \in 1..p.n |-> List(<<Sym("t"), MalInt(k)>>)]),
      \* (deref log)
      List(<<Sym("deref"), Sym("log")>>),
      \* (reset! log (list))
      List(<<Sym("reset!"), Sym("log"), List(<<Sym("list")>>)>>),
      \* ((do (t 0) t) (t 1) zz (t 2))
      List(<<List(<<Sym("do"), List(<<Sym("t"), MalInt(0)>>), Sym("t")>>),
      List(<<Sym("t"), MalInt(1)>>), Sym("zz"), List(<<Sym("t"),
      MalInt(2)>>)>>),
      \* (deref log)
      List(<<Sym("deref"), Sym("log")>>)
    >>

DoEmpty(p) ==
    <<\* one of (do), (let* (a 1) (do)), ((fn* () (do)))
      (<<List(<<Sym("do")>>), List(<<Sym("let*"), List(<<Sym("a"),
      MalInt(1)>>), List(<<Sym("do")>>)>>), List(<<List(<<Sym("fn*"),
      List(<<>>), List(<<Sym("do")>>)>>)>>)>>[p.n + 1])
    >>

QqLines(p) ==
    <<\* (def! a 7)
      List(<<Sym("def!"), Sym("a"), MalInt(7)>>),
      \* (def! b (list 8 9))
      List(<<Sym("def!"), Sym("b"), List(<<Sym("list"), MalInt(8),
      MalInt(9)>>)>>),
      \* (def! c (atom 0))
      List(<<Sym("def!"), Sym("c"), List(<<Sym("atom"), MalInt(0)>>)>>),
      \* (quasiquoteexpand F)
      List(<<Sym("quasiquoteexpand"), QqForm(p)>>),
      \* (eval (quasiquoteexpand F))
      List(<<Sym("eval"), List(<<Sym("quasiquoteexpand"), QqForm(p)>>)>>),
      \* (deref c)
      List(<<Sym("deref"), Sym("c")>>),
      \* (reset! c 0)
      List(<<Sym("reset!"), Sym("c"), MalInt(0)>>),
      \* (quasiquote F)
      List(<<Sym("quasiquote"), QqForm(p)>>),
      \* (deref c)
      List(<<Sym("deref"), Sym("c")>>),
      \* (reset! c 0)
      List(<<Sym("reset!"), Sym("c"), MalInt(0)>>),
      \* (eval (quasiquote F))
      List(<<Sym("eval"), List(<<Sym("quasiquote"), QqForm(p)>>)>>),
      \* (reset! c 0)
      List(<<Sym("reset!"), Sym("c"), MalInt(0)>>),
      \* (let* (a 99) (eval (quasiquoteexpand F)))
      List(<<Sym("let*"), List(<<Sym("a"), MalInt(99)>>),
      List(<<Sym("eval"), List(<<Sym("quasiquoteexpand"), QqForm(p)>>)>>)>>)
    >>

AtomEq(p) ==
    <<\* (def! a (atom 0))
      List(<<Sym("def!"), Sym("a"), List(<<Sym("atom"), MalInt(0)>>)>>),
      \* (def! b (atom 0))
      List(<<Sym("def!"), Sym("b"), List(<<Sym("atom"), MalInt(0)>>)>>),
      \* (= a a)
      List(<<Sym("="), Sym("a"), Sym("a")>>),
      \* (= a b)
      List(<<Sym("="), Sym("a"), Sym("b")>>),
      \* (let* (a (atom 0)) (= a a))
      List(<<Sym("let*"), List(<<Sym("a"), List(<<Sym("atom"), MalInt(0)>>)>>),
      List(<<Sym("="), Sym("a"), Sym("a")>>)>>),
      \* (def! d a)
      List(<<Sym("def!"), Sym("d"), Sym("a")>>),
      \* (= a d)
      List(<<Sym("="), Sym("a"), Sym("d")>>),
      \* (= (deref a) (deref b))
      List(<<Sym("="), List(<<Sym("deref"), Sym("a")>>), List(<<Sym("deref"),
      Sym("b")>>)>>)
    >>

\* the names of the parameters of the recording functions
ParamNames == <<"p1", "p2", "p3", "p4", "p5", "p6", "p7", "p8">>
Params(k) == [j \in 1..k |-> Sym(ParamNames[j])]
\* (fn* (p1 .. pk) (do (swap! c (fn* (old) (cons (list p1 .. pk) old)))
\*                     (list p1 .. pk))): records its arguments in the atom c
Recorder(k) ==
    List(<<Sym("fn*"), List(Params(k)),
           List(<<Sym("do"),
                  List(<<Sym("swap!"), Sym("c"),
                         List(<<Sym("fn*"), List(<<Sym("old")>>),
                                List(<<Sym("cons"),
                                       List(<<Sym("list")>> \o Params(k)),
                                       Sym("old")>>)>>)>>),
                  List(<<Sym("list")>> \o Params(k))>>)>>)
\* 1 .. n
Ints(n) == [k \in 1..n |-> MalInt(k)]

ApplyLines(p) ==
    <<\* (def! c (atom (list)))
      List(<<Sym("def!"), Sym("c"), List(<<Sym("atom"), List(<<Sym("list")>>)>>)>>),
      \* (def! f (fn* (p1 .. pN) ..)) and (def! g (fn* (p1 .. pN+2) ..))
      List(<<Sym("do"), List(<<Sym("def!"), Sym("f"), Recorder(p.n)>>),
                        List(<<Sym("def!"), Sym("g"), Recorder(p.n + 2)>>), Nil>>),
      \* (apply f 1 .. N (list))
      List(<<Sym("apply"), Sym("f")>> \o Ints(p.n) \o <<List(<<Sym("list")>>)>>),
      \* (apply g 1 .. N (list 8 9))
      List(<<Sym("apply"), Sym("g")>> \o Ints(p.n)
           \o <<List(<<Sym("list"), MalInt(8), MalInt(9)>>)>>),
      \* (apply g 1 .. N [8 9])
      List(<<Sym("apply"), Sym("g")>> \o Ints(p.n)
           \o <<Vector(<<MalInt(8), MalInt(9)>>)>>),
      \* (deref c)
      List(<<Sym("deref"), Sym("c")>>),
      \* (apply f 1 .. N 5)
      List(<<Sym("apply"), Sym("f")>> \o Ints(p.n) \o <<MalInt(5)>>),
      \* (apply f)
      List(<<Sym("apply"), Sym("f")>>),
      \* (deref c)
      List(<<Sym("deref"), Sym("c")>>),
      \* (apply + 1 .. N (list 8 9))
      List(<<Sym("apply"), Sym("+")>> \o Ints(p.n)
           \o <<List(<<Sym("list"), MalInt(8), MalInt(9)>>)>>)
    >>

\* k times (swap! c + 1)
Bumps(k) == [j \in 1..k |-> List(<<Sym("swap!"), Sym("c"), Sym("+"), MalInt(1)>>)]

Uncaught(p) ==
    <<\* (def! c (atom 0))
      List(<<Sym("def!"), Sym("c"), List(<<Sym("atom"), MalInt(0)>>)>>),
      \* (do (def! x 7) (swap! c + 1) .. N times .. (throw "boom"))
      List(<<Sym("do"), List(<<Sym("def!"), Sym("x"), MalInt(7)>>)>>
           \o Bumps(p.n) \o <<List(<<Sym("throw"), Str("boom")>>)>>),
      \* x
      Sym("x"),
      \* (deref c)
      List(<<Sym("deref"), Sym("c")>>),
      \* zz
      Sym("zz"),
      \* (list x (deref c))
      List(<<Sym("list"), Sym("x"), List(<<Sym("deref"), Sym("c")>>)>>)
    >>

\* rep("(load-file f)"): load-file is (fn* (f) (eval (read-string (str "(do "
\* (slurp f) "\nnil)")))), so the forms F1 .. Fk of a readable file f are
\* evaluated as (eval '(do F1 .. Fk nil)).  The file is (def! c (atom 0)),
\* N times (swap! c + 1), then last
Script(p, last) ==
    <<List(<<Sym("eval"),
             List(<<Sym("quote"),
                    List(<<Sym("do"),
                           List(<<Sym("def!"), Sym("c"),
                                  List(<<Sym("atom"), MalInt(0)>>)>>)>>
                         \o Bumps(p.n) \o <<last, Nil>>)>>)>>)>>

\* a file that ends in (deref c)
ScriptOk(p) == Script(p, List(<<Sym("deref"), Sym("c")>>))

\* a file that ends in (throw "boom")
ScriptErr(p) == Script(p, List(<<Sym("throw"), Str("boom")>>))

DefmacroLet(p) ==
    <<\* (def! f (fn* (x) x))
      List(<<Sym("def!"), Sym("f"), List(<<Sym("fn*"), List(<<Sym("x")>>),
      Sym("x")>>)>>),
      \* (let* (z 1) (do (defmacro! m f) (m 5)))
      List(<<Sym("let*"), List(<<Sym("z"), MalInt(1)>>), List(<<Sym("do"),
      List(<<Sym("defmacro!"), Sym("m"), Sym("f")>>), List(<<Sym("m"),
      MalInt(5)>>)>>)>>),
      \* (m 6)
      List(<<Sym("m"), MalInt(6)>>),
      \* (let* (m 1) (do (defmacro! m (fn* (x) x)) m))
      List(<<Sym("let*"), List(<<Sym("m"), MalInt(1)>>), List(<<Sym("do"),
      List(<<Sym("defmacro!"), Sym("m"), List(<<Sym("fn*"), List(<<Sym("x")>>),
      Sym("x")>>)>>), Sym("m")>>)>>)
    >>

SwapFail(p) ==
    <<\* (def! a (atom 1))
      List(<<Sym("def!"), Sym("a"), List(<<Sym("atom"), MalInt(1)>>)>>),
      \* (swap! a (fn* (x) (throw x)))
      List(<<Sym("swap!"), Sym("a"), List(<<Sym("fn*"), List(<<Sym("x")>>),
      List(<<Sym("throw"), Sym("x")>>)>>)>>),
      \* (deref a)
      List(<<Sym("deref"), Sym("a")>>),
      \* (swap! a (fn* (x) (do (reset! a 5) (throw "e"))))
      List(<<Sym("swap!"), Sym("a"), List(<<Sym("fn*"), List(<<Sym("x")>>),
      List(<<Sym("do"), List(<<Sym("reset!"), Sym("a"), MalInt(5)>>),
      List(<<Sym("throw"), Str("e")>>)>>)>>)>>),
      \* (deref a)
      List(<<Sym("deref"), Sym("a")>>),
      \* (swap! a (fn* (x) (do (swap! a + N) (zz))))
      List(<<Sym("swap!"), Sym("a"), List(<<Sym("fn*"), List(<<Sym("x")>>),
      List(<<Sym("do"), List(<<Sym("swap!"), Sym("a"), Sym("+"),
      MalInt(p.n)>>), List(<<Sym("zz")>>)>>)>>)>>),
      \* (deref a)
      List(<<Sym("deref"), Sym("a")>>),
      \* (swap! a (fn* (x) (do (swap! a (fn* (y) (do (reset! a 100) (throw "in")))) 0)))
      List(<<Sym("swap!"), Sym("a"), List(<<Sym("fn*"), List(<<Sym("x")>>),
      List(<<Sym("do"), List(<<Sym("swap!"), Sym("a"), List(<<Sym("fn*"),
      List(<<Sym("y")>>), List(<<Sym("do"), List(<<Sym("reset!"), Sym("a"),
      MalInt(100)>>), List(<<Sym("throw"), Str("in")>>)>>)>>)>>),
      MalInt(0)>>)>>)>>),
      \* (deref a)
      List(<<Sym("deref"), Sym("a")>>),
      \* (swap! a deref)
      List(<<Sym("swap!"), Sym("a"), Sym("deref")>>),
      \* (deref a)
      List(<<Sym("deref"), Sym("a")>>),
      \* (try* (swap! a (fn* (x) (throw 9))) (catch* e e))
      List(<<Sym("try*"), List(<<Sym("swap!"), Sym("a"), List(<<Sym("fn*"),
      List(<<Sym("x")>>), List(<<Sym("throw"), MalInt(9)>>)>>)>>),
      List(<<Sym("catch*"), Sym("e"), Sym("e")>>)>>),
      \* (deref a)
      List(<<Sym("deref"), Sym("a")>>)
    >>

ProgramNames ==
    {"swap_plus",
     "swap_shared",
     "swap_reenter",
     "swap_reset",
     "swap_bad",
     "try_ok",
     "try_throw",
     "try_error",
     "try_nocatch",
     "try_type",
     "try_div",
     "try_arity_fn",
     "try_arity_builtin",
     "div",
     "div_zero",
     "lexical",
     "loop_if",
     "loop_all",
     "loop_nontail",
     "macro",
     "misc",
     "misc_panic",
     "arity",
     "let",
     "evalroot",
     "defmacro",
     "macro_order",
     "order",
     "do_empty",
     "qq",
     "atom_eq",
     "apply",
     "uncaught", "script_ok", "script_err",
     "defmacro_let",
     "swap_fail"}

Lines(p) ==
    CASE p.name = "swap_plus" -> SwapPlus(p)
      [] p.name = "swap_shared" -> SwapShared(p)
      [] p.name = "swap_reenter" -> SwapReenter(p)
      [] p.name = "swap_reset" -> SwapReset(p)
      [] p.name = "swap_bad" -> SwapBad(p)
      [] p.name = "try_ok" -> TryOk(p)
      [] p.name = "try_throw" -> TryThrow(p)
      [] p.name = "try_error" -> TryError(p)
      [] p.name = "try_nocatch" -> TryNoCatch(p)
      [] p.name = "try_type" -> TryType(p)
      [] p.name = "try_div" -> TryDiv(p)
      [] p.name = "try_arity_fn" -> TryArityFn(p)
      [] p.name = "try_arity_builtin" -> TryArityBuiltin(p)
      [] p.name = "div" -> DivLines(p)
      [] p.name = "div_zero" -> DivZero(p)
      [] p.name = "lexical" -> Lexical(p)
      [] p.name = "loop_if" -> LoopIf(p)
      [] p.name = "loop_all" -> LoopAll(p)
      [] p.name = "loop_nontail" -> LoopNonTail(p)
      [] p.name = "macro" -> MacroLines(p)
      [] p.name = "misc" -> Misc(p)
      [] p.name = "misc_panic" -> MiscPanic(p)
      [] p.name = "arity" -> Arity(p)
      [] p.name = "let" -> LetLines(p)
      [] p.name = "evalroot" -> EvalRootLines(p)
      [] p.name = "defmacro" -> DefmacroLines(p)
      [] p.name = "macro_order" -> MacroOrder(p)
      [] p.name = "order" -> OrderLines(p)
      [] p.name = "do_empty" -> DoEmpty(p)
      [] p.name = "qq" -> QqLines(p)
      [] p.name = "atom_eq" -> AtomEq(p)
      [] p.name = "apply" -> ApplyLines(p)
      [] p.name = "uncaught" -> Uncaught(p)
      [] p.name = "script_ok" -> ScriptOk(p)
      [] p.name = "script_err" -> ScriptErr(p)
      [] p.name = "defmacro_let" -> DefmacroLet(p)
      [] p.name = "swap_fail" -> SwapFail(p)

Programs ==
    {[name |-> nm, n |-> 0] : nm \in {"swap_plus", "swap_shared", "swap_reenter", "swap_reset", "swap_bad", "try_ok", "try_throw", "try_error", "try_nocatch", "try_type", "try_div", "try_arity_fn", "try_arity_builtin", "macro", "misc", "defmacro", "macro_order", "atom_eq", "defmacro_let"}}
    \cup {[name |-> "div", n |-> k] : k \in 1..MaxN}
    \cup {[name |-> "div_zero", n |-> k] : k \in 0..MaxN}
    \cup {[name |-> "lexical", n |-> k] : k \in 0..MaxN}
    \cup {[name |-> "loop_if", n |-> k] : k \in 0..MaxN}
    \cup {[name |-> "loop_all", n |-> k] : k \in 0..MaxN}
    \cup {[name |-> "loop_nontail", n |-> k] : k \in 0..MaxN}
    \cup {[name |-> "misc_panic", n |-> k] : k \in 0..8}
    \cup {[name |-> "arity", n |-> k] : k \in 0..1}
    \cup {[name |-> "let", n |-> k] : k \in 0..MaxN}
    \cup {[name |-> "evalroot", n |-> k] : k \in 0..MaxN}
    \cup {[name |-> "order", n |-> k] : k \in 0..MaxN}
    \cup {[name |-> "do_empty", n |-> k] : k \in 0..2}
    \cup {[name |-> "qq", n |-> 0, form |-> f] : f \in QqForms}
    \cup {[name |-> "apply", n |-> k] : k \in 0..MaxN}
    \cup {[name |-> nm, n |-> k] :
             nm \in {"uncaught", "script_ok", "script_err"}, k \in 0..MaxN}
    \cup {[name |-> "swap_fail", n |-> k] : k \in 0..MaxN}

----------------------------------------------------------------------------
(* step9_try.rs: main.  repl_env holds ns(), *ARGV* and the bootstrap        *)
(* definition of not.                                                        *)

ReplData ==
    [f \in CoreNames |-> Function(f)]
    @@ ("*ARGV*" :> List(<<>>))
    @@ ("not" :> MalFunction(List(<<Sym("a")>>),
                             List(<<Sym("if"), Sym("a"), Bool(FALSE), Bool(TRUE)>>),
                             1, FALSE))

NoOp == [op |-> "none"]

Init ==
    /\ envs = <<[data |-> ReplData, outer |-> 0]>>
    /\ cells = <<>>
    /\ stack = <<>>
    /\ ret = NoRet
    /\ status = "run"
    /\ prog \in Programs
    /\ lines = Lines(prog)
    /\ out = <<>>
    /\ lastOp = NoOp

Next ==
    \/ RepEval \/ RepOutput \/ ScriptExit
    \/ EvalMacroexpand \/ EvalMacroexpanded
    \/ MacroexpandApply \/ MacroexpandApplied \/ MacroexpandDone
    \/ EvalNotList \/ EvalEmptyList
    \/ EvalDef \/ EvalDefSet
    \/ EvalDefmacro \/ EvalDefmacroSet
    \/ EvalLet \/ EvalLetBind \/ EvalLetSet \/ EvalLetBody
    \/ EvalDo \/ EvalDoLast
    \/ EvalIf \/ EvalIfBranch
    \/ EvalFn
    \/ EvalEvalForm \/ EvalEvalRoot
    \/ EvalQuote \/ EvalQuasiquote \/ EvalQuasiquoteexpand
    \/ EvalMacroexpandForm
    \/ EvalTry \/ EvalTryPass \/ EvalTryCatch \/ EvalTryNoCatch
    \/ EvalApply \/ EvalApplyFunction \/ EvalApplyMalFunction \/ EvalApplyOther
    \/ EvalAstSymbol \/ EvalAstNext \/ EvalAstPush \/ EvalAstDone \/ EvalAstOther
    \/ ApplyFunction \/ ApplySwap \/ SwapStore \/ ApplyApply
    \/ ApplyMalFunction \/ ApplyOther
    \/ Propagate \/ TailReturn

Spec == Init /\ [][Next]_vars

\* the driver has no line left and nothing is running
Done == status = "run" /\ stack = <<>> /\ ret.k = "none" /\ lines = <<>>

----------------------------------------------------------------------------
(* env.rs called directly: a client creates frames, sets and looks up       *)
(* symbols, and binds a parameter list as the last operation of a run.      *)
(* lastOp records the call and what it returned.                            *)

EnvSymbols == {"x", "y"}
EnvValues == {MalInt(1), MalInt(2)}

\* parameter lists handed to bind: (a), (a b), (a & r), (& r), [a & r], and nil
BindParams ==
    {List(<<Sym("a")>>),
     List(<<Sym("a"), Sym("b")>>),
     List(<<Sym("a"), Sym("&"), Sym("r")>>),
     List(<<Sym("&"), Sym("r")>>),
     Vector(<<Sym("a"), Sym("&"), Sym("r")>>),
     Nil}

\* argument sequences handed to bind: 1, 2, .., n
BindArgs == {[k \in 1..n |-> MalInt(k)] : n \in 0..MaxArgs}

EnvIdle == status = "run" /\ lastOp.op # "bind"

Frames == 1..Len(envs)

\* Env::new(outer)
EnvApiNew ==
    /\ EnvIdle
    /\ Len(envs) < MaxFrames
    /\ \E o \in {0} \cup Frames :
        /\ envs' = EnvNew(envs, o)
        /\ lastOp' = [op |-> "new", env |-> Len(envs) + 1, outer |-> o]
    /\ UNCHANGED <<cells, stack, ret, status, lines, out, prog>>

\* env.set(symbol, value)
EnvApiSet ==
    /\ EnvIdle
    /\ \E e \in Frames, s \in EnvSymbols, v \in EnvValues :
        /\ envs' = EnvSet(envs, e, s, v)
        /\ lastOp' = [op |-> "set", env |-> e, sym |-> s, val |-> v]
    /\ UNCHANGED <<cells, stack, ret, status, lines, out, prog>>

\* env.get(symbol), which goes through env.find(symbol)
EnvApiGet ==
    /\ EnvIdle
    /\ \E e \in Frames, s \in EnvSymbols :
        lastOp' = [op |-> "get", env |-> e, sym |-> s,
                   found |-> EnvFind(envs, e, s), r |-> EnvGet(envs, e, s)]
    /\ UNCHANGED <<envs, cells, stack, ret, status, lines, out, prog>>

\* env.bind(binds, exprs), on a frame nothing is set in yet, as its callers do
EnvApiBind ==
    /\ EnvIdle
    /\ \E e \in Frames, binds \in BindParams, exprs \in BindArgs :
        /\ Symbols(envs, e) = {}
        /\ LET b == EnvBind(envs, e, binds, exprs, cells)
           IN  /\ envs' = b.envs
               /\ status' = IF b.r = "panic" THEN "panic" ELSE "run"
               /\ lastOp' = [op |-> "bind", env |-> e, binds |-> binds,
                             exprs |-> exprs, r |-> b.r]
    /\ UNCHANGED <<cells, stack, ret, lines, out, prog>>

InitEnv ==
    /\ envs = <<[data |-> <<>>, outer |-> 0]>>
    /\ cells = <<>>
    /\ stack = <<>>
    /\ ret = NoRet
    /\ status = "run"
    /\ prog = [name |-> "env", n |-> 0]
    /\ lines = <<>>
    /\ out = <<>>
    /\ lastOp = NoOp

NextEnv == EnvApiNew \/ EnvApiSet \/ EnvApiGet \/ EnvApiBind

SpecEnv == InitEnv /\ [][NextEnv]_vars

----------------------------------------------------------------------------
(* printer.rs and reader.rs called directly.  Here a string, a symbol name   *)
(* and a text are sequences of one-character strings, so that escaping,      *)
(* tokenizing and parsing work on the characters as the code does.           *)

\* core.rs KEYWORD_PREFIX, the one character U+029E (two bytes in UTF-8)
KEYWORD_PREFIX == "<29e>"

\* the character U+0060, which a string of this notation cannot hold
Backtick == "<60>"

Whitespace == {" ", "\n", "\t", "\r"}
Digit == <<"0", "1", "2", "3", "4", "5", "6", "7", "8", "9">>
DigitChars == {Digit[k] : k \in 1..10}

starts_with(s, c) == Len(s) >= 1 /\ s[1] = c

RECURSIVE Flat(_)
Flat(ss) == IF ss = <<>> THEN <<>> ELSE Head(ss) \o Flat(Tail(ss))

RECURSIVE Join(_, _)
Join(ss, sep) ==
    IF ss = <<>> THEN <<>>
    ELSE IF Len(ss) = 1 THEN ss[1]
    ELSE ss[1] \o sep \o Join(Tail(ss), sep)

\* i64::to_string
RECURSIVE NatToString(_)
NatToString(n) ==
    IF n < 10 THEN <<Digit[n + 1]>>
    ELSE NatToString(n \div 10) \o <<Digit[(n % 10) + 1]>>
IntToString(i) == IF i < 0 THEN <<"-">> \o NatToString(0 - i) ELSE NatToString(i)

\* printer.rs pr_str_transform: escape ", newline and \, and add the quotes
pr_str_transform(s) ==
    <<"\"">>
    \o Flat([k \in 1..Len(s) |->
              IF s[k] = "\n" THEN <<"\\", "n">>
              ELSE IF s[k] \in {"\"", "\\"} THEN <<"\\", s[k]>>
              ELSE <<s[k]>>])
    \o <<"\"">>

\* hm.iter().flat_map(|(k, v)| vec![k, v]): the maps of this model have at
\* most one key, so that the order of a BTreeMap's keys does not arise
RECURSIVE MapFlat(_, _)
MapFlat(m, keys) ==
    IF keys = {} THEN <<>>
    ELSE LET k == CHOOSE x \in keys : TRUE
         IN  <<k, m[k]>> \o MapFlat(m, keys \ {k})

\* printer.rs MalType::pr_str and pr_list, for values without function and atom
RECURSIVE pr_str(_, _)
pr_list(seq, open, close, print_readably, join) ==
    open \o Join([k \in 1..Len(seq) |-> pr_str(seq[k], print_readably)], join)
         \o close
pr_str(v, print_readably) ==
    CASE v.t = "nil" -> <<"n", "i", "l">>
      [] v.t = "bool" -> IF v.b THEN <<"t", "r", "u", "e">>
                         ELSE <<"f", "a", "l", "s", "e">>
      [] v.t = "int" -> IntToString(v.i)
      [] v.t = "str" ->
            IF starts_with(v.s, KEYWORD_PREFIX) THEN <<":">> \o Tail(v.s)
            ELSE IF print_readably THEN pr_str_transform(v.s)
            ELSE v.s
      [] v.t = "sym" -> v.n
      [] v.t = "list" -> pr_list(v.l, <<"(">>, <<")">>, print_readably, <<" ">>)
      [] v.t = "vec" -> pr_list(v.l, <<"[">>, <<"]">>, print_readably, <<" ">>)
      [] v.t = "map" -> pr_list(MapFlat(v.m, DOMAIN v.m), <<"{">>, <<"}">>,
                                print_readably, <<" ">>)

\* str::trim
RECURSIVE TrimStart(_)
TrimStart(s) ==
    IF s # <<>> /\ Head(s) \in Whitespace THEN TrimStart(Tail(s)) ELSE s
RECURSIVE TrimEnd(_)
TrimEnd(s) ==
    IF s # <<>> /\ s[Len(s)] \in Whitespace
    THEN TrimEnd(SubSeq(s, 1, Len(s) - 1)) ELSE s
Trim(s) == TrimEnd(TrimStart(s))

(* reader.rs RE:                                                             *)
(* whitespace and commas, then the first that matches of: ~@, one special   *)
(* character, a string whose closing quote may be missing, a comment up to  *)
(* the end of the line, a run of characters outside NonSymbol.               *)
Specials == {"[", "]", "{", "}", "(", ")", "'", Backtick, "~", "^", "@"}
NonSymbol ==
    Whitespace \cup {"[", "]", "{", "}", "(", "'", "\"", Backtick, ",", ";", ")"}

\* where the run of whitespace and commas that starts at p ends
RECURSIVE SkipBlank(_, _)
SkipBlank(s, p) ==
    IF p <= Len(s) /\ s[p] \in Whitespace \cup {","} THEN SkipBlank(s, p + 1)
    ELSE p

\* where the body of a string that starts at p ends: a backslash with any
\* character but a newline after it, or a character that is neither a
\* backslash nor a double quote, repeated
RECURSIVE StrBodyEnd(_, _)
StrBodyEnd(s, p) ==
    IF p > Len(s) THEN p
    ELSE IF s[p] = "\\"
         THEN IF p + 1 <= Len(s) /\ s[p + 1] # "\n" THEN StrBodyEnd(s, p + 2)
              ELSE p
    ELSE IF s[p] = "\"" THEN p
    ELSE StrBodyEnd(s, p + 1)

\* where the line that starts at p ends
RECURSIVE LineEnd(_, _)
LineEnd(s, p) == IF p <= Len(s) /\ s[p] # "\n" THEN LineEnd(s, p + 1) ELSE p

\* where the run of characters outside NonSymbol that starts at p ends
RECURSIVE SymbolEnd(_, _)
SymbolEnd(s, p) ==
    IF p <= Len(s) /\ s[p] \notin NonSymbol THEN SymbolEnd(s, p + 1) ELSE p

\* the end of the capture group that starts at q: the first alternative that
\* matches, the last one matching the empty text when nothing else does
CaptureEnd(s, q) ==
    IF q > Len(s) THEN q
    ELSE IF s[q] = "~" /\ q + 1 <= Len(s) /\ s[q + 1] = "@" THEN q + 2
    ELSE IF s[q] \in Specials THEN q + 1
    ELSE IF s[q] = "\""
         THEN LET e == StrBodyEnd(s, q + 1)
              IN  IF e <= Len(s) /\ s[e] = "\"" THEN e + 1 ELSE e
    ELSE IF s[q] = ";" THEN LineEnd(s, q + 1)
    ELSE SymbolEnd(s, q)

\* RE.captures_iter: the captures of the successive matches from pos on; an
\* empty match at the end of the last match is skipped by searching again one
\* character further.  last is the end of the last match, 0 before any.
RECURSIVE Captures(_, _, _)
Captures(s, pos, last) ==
    IF pos > Len(s) + 1 THEN <<>>
    ELSE LET q == SkipBlank(s, pos)
             e == CaptureEnd(s, q)
         IN  IF e = pos /\ pos = last THEN Captures(s, pos + 1, last)
             ELSE <<SubSeq(s, q, e - 1)>> \o Captures(s, e, e)

\* reader.rs tokenize: the captures of s.trim() that are no comments
IsComment(token) == starts_with(token, ";")
tokenize(s) == SelectSeq(Captures(Trim(s), 1, 0), LAMBDA token : ~IsComment(token))

ReadErr(msg) == MalErr("ReadErr", msg)

\* INT_RE: an optional minus sign and one or more digits, the whole token
IsDigits(s) == Len(s) >= 1 /\ \A k \in 1..Len(s) : s[k] \in DigitChars
INT_RE(token) ==
    IF starts_with(token, "-") THEN IsDigits(Tail(token)) ELSE IsDigits(token)

\* str::parse::<i64> of a token INT_RE matches; the tokens of this model are
\* too short to overflow
DigitValue(c) == CHOOSE d \in 0..9 : Digit[d + 1] = c
RECURSIVE ParseNat(_)
ParseNat(s) ==
    IF s = <<>> THEN 0
    ELSE 10 * ParseNat(SubSeq(s, 1, Len(s) - 1)) + DigitValue(s[Len(s)])
ParseInt(token) ==
    IF starts_with(token, "-") THEN 0 - ParseNat(Tail(token))
    ELSE ParseNat(token)

\* s is the body of a string
IsStrBody(s) == StrBodyEnd(s, 1) = Len(s) + 1

\* STR_RE: a quoted string occurs somewhere in the token
STR_RE(token) ==
    \E i \in 1..Len(token) : \E j \in (i + 1)..Len(token) :
        /\ token[i] = "\""
        /\ token[j] = "\""
        /\ IsStrBody(SubSeq(token, i + 1, j - 1))

\* UNESCAPE_RE.replace_all: backslash n becomes a newline, backslash c becomes c
RECURSIVE Unescape(_)
Unescape(t) ==
    IF t = <<>> THEN <<>>
    ELSE IF t[1] = "\\" /\ Len(t) >= 2 /\ t[2] # "\n"
         THEN <<IF t[2] = "n" THEN "\n" ELSE t[2]>> \o Unescape(SubSeq(t, 3, Len(t)))
    ELSE <<t[1]>> \o Unescape(Tail(t))

\* reader.rs read_str_transform: drop the quotes, undo the escapes
read_str_transform(s) == Unescape(SubSeq(s, 2, Len(s) - 1))

\* impl TryFrom<Token> for MalType
try_from(token) ==
    CASE token = <<"n", "i", "l">> -> Ok(Nil)
      [] token = <<"t", "r", "u", "e">> -> Ok(Bool(TRUE))
      [] token = <<"f", "a", "l", "s", "e">> -> Ok(Bool(FALSE))
      [] OTHER ->
            IF INT_RE(token) THEN Ok(MalInt(ParseInt(token)))
            ELSE IF STR_RE(token) THEN Ok(Str(read_str_transform(token)))
            ELSE IF starts_with(token, "\"") THEN Err(ReadErr("Unbalanced string"))
            ELSE IF starts_with(token, ":")
                 THEN Ok(Str(<<KEYWORD_PREFIX>> \o Tail(token)))
            ELSE Ok(Sym(token))

\* types.rs hashmap!: the pairs of l, a later pair replacing an earlier one
\* with the same key
hashmap(l) ==
    IF Len(l) % 2 # 0 THEN Err(MalErr("Generic", "Odd number of arguments"))
    ELSE LET n == Len(l) \div 2
             keys == {l[2 * i - 1] : i \in 1..n}
             lastOf(k) == CHOOSE i \in 1..n :
                             /\ l[2 * i - 1] = k
                             /\ \A j \in (i + 1)..n : l[2 * j - 1] # k
         IN  Ok(HashMap([k \in keys |-> l[2 * lastOf(k)]]))

\* core.rs contains: hm.contains_key(key).  A BTreeMap finds a key by the
\* derived Ord of MalType, which tells the variants apart and is equality of
\* structure on the values of this model
contains(value, key) ==
    IF value.t = "map" THEN Ok(Bool(key \in DOMAIN value.m))
    ELSE FunctionErr("Expected a hash-map")

\* core.rs get: hm.get(key).unwrap_or(&Nil); Nil for Nil
get(value, key) ==
    CASE value.t = "map" ->
            Ok(IF key \in DOMAIN value.m THEN value.m[key] ELSE Nil)
      [] value.t = "nil" -> Ok(Nil)
      [] OTHER -> FunctionErr("Expected a hash-map")

\* core.rs assoc: the pairs of the map, then args[1..], through hashmap!
assoc(args) ==
    IF args[1].t = "map"
    THEN hashmap(MapFlat(args[1].m, DOMAIN args[1].m) \o Tail(args))
    ELSE FunctionErr("Expected a hash-map")

\* reader.rs read_form and read_list over the tokens, from the Reader's
\* position pos on: the result and the position after it
Read(r, pos) == [r |-> r, pos |-> pos]
RECURSIVE read_form(_, _)
RECURSIVE read_list(_, _, _, _)
read_list(tokens, pos, end, list) ==
    IF pos > Len(tokens) THEN Read(Err(ReadErr("Unexpected EOF")), pos)
    ELSE IF tokens[pos] = end
         THEN Read(CASE end = <<")">> -> Ok(List(list))
                     [] end = <<"]">> -> Ok(Vector(list))
                     [] end = <<"}">> -> hashmap(list),
                   pos + 1)
    ELSE LET next == read_form(tokens, pos)
         IN  IF next.r.k = "err" THEN next
             ELSE read_list(tokens, next.pos, end, Append(list, next.r.v))
read_form(tokens, pos) ==
    IF pos > Len(tokens)
    THEN Read(Err(ReadErr("Reader position out of bounds")), pos)
    ELSE LET token == tokens[pos]
         IN  CASE token = <<"(">> -> read_list(tokens, pos + 1, <<")">>, <<>>)
               [] token = <<")">> -> Read(Err(ReadErr("Unexpected ')'")), pos)
               [] token = <<"[">> -> read_list(tokens, pos + 1, <<"]">>, <<>>)
               [] token = <<"]">> -> Read(Err(ReadErr("Unexpected ']'")), pos)
               [] token = <<"{">> -> read_list(tokens, pos + 1, <<"}">>, <<>>)
               [] token = <<"}">> -> Read(Err(ReadErr("Unexpected '}'")), pos)
               [] token = <<"@">> ->
                     LET next == read_form(tokens, pos + 1)
                     IN  IF next.r.k = "err" THEN next
                         ELSE Read(Ok(List(<<Sym(<<"d", "e", "r", "e", "f">>),
                                             next.r.v>>)), next.pos)
               [] OTHER -> Read(try_from(token), pos + 1)

\* reader.rs read_str
read_str(s) == read_form(tokenize(s), 1).r

\* core.rs symbol, keyword and make_string (str is make_string(a, false, ""))
symbol(value) ==
    IF value.t = "str" THEN Ok(Sym(value.s))
    ELSE Err(MalErr("FunctionErr", "Expected a string"))
keyword(value) ==
    IF value.t = "str" /\ starts_with(value.s, KEYWORD_PREFIX) THEN Ok(value)
    ELSE IF value.t = "str" THEN Ok(Str(<<KEYWORD_PREFIX>> \o value.s))
    ELSE Err(MalErr("FunctionErr", "Expected a string"))
make_string(args, print_readably, join) ==
    Ok(Str(pr_list(args, <<>>, <<>>, print_readably, join)))

\* core.rs seq: a string gives the list of its characters, each a string
seq(value) ==
    CASE IsSeqVal(value) /\ value.l = <<>> -> Ok(Nil)
      [] IsSeqVal(value) /\ value.l # <<>> -> Ok(List(value.l))
      [] value.t = "str" /\ value.s = <<>> -> Ok(Nil)
      [] value.t = "str" /\ value.s # <<>> ->
            Ok(List([k \in 1..Len(value.s) |-> Str(<<value.s[k]>>)]))
      [] value.t = "nil" -> Ok(Nil)
      [] OTHER -> Err(MalErr("FunctionErr", "invalid value for seq"))

(* The values handed to the printer.  RtBase holds values the reader gives   *)
(* for a well-formed text; the builtins symbol, keyword, str and list then   *)
(* make further values out of them, at most MaxMade calls in a row.          *)
RtChars == {"a", "n", "1", "-", " ", "\n", "\"", "\\", ":", "(", "{", "}", ";"}
RtStrings == SeqsUpTo(RtChars, MaxStr)
RtNames == {<<"a">>, <<"-">>, <<"a", "1">>, <<"-", "a">>, <<"n">>}
RtScalars ==
    {Nil, Bool(TRUE), Bool(FALSE), MalInt(0), MalInt(7), MalInt(0 - 1), MalInt(10)}
    \cup {Str(s) : s \in RtStrings}
    \cup {Str(<<KEYWORD_PREFIX>> \o n) : n \in RtNames \cup {<<>>}}
    \cup {Sym(n) : n \in RtNames}
RtElements ==
    {Nil, MalInt(1), Str(<<"a", " ">>), Str(<<"\"">>), Sym(<<"a">>),
     Str(<<KEYWORD_PREFIX, "a">>), List(<<>>), Vector(<<MalInt(1)>>)}
RtBase ==
    RtScalars
    \cup {List(l) : l \in SeqsUpTo(RtElements, MaxLen)}
    \cup {Vector(l) : l \in SeqsUpTo(RtElements, MaxLen)}
    \cup {HashMap(<<>>), HashMap(Str(<<"a">>) :> MalInt(1)),
          HashMap(Str(<<KEYWORD_PREFIX, "a">>) :> List(<<Sym(<<"a">>)>>))}

\* The texts handed to read_str that are no value's rendering: up to MaxWords
\* words, with and without a space between them, and a few longer ones
RdWords ==
    {<<"(">>, <<")">>, <<"[">>, <<"]">>, <<"{">>, <<"}">>, <<"'">>, <<Backtick>>,
     <<"~">>, <<"~", "@">>, <<"@">>, <<"^">>, <<"a">>, <<"1">>}
RdLonger ==
    {<<"{", "a", " ", "1", "}">>, <<"{", "a", " ", "1", " ", "a", "}">>,
     <<"(", "a", " ", "1", ")", ")">>, <<"(", "'", "a", " ", "~", "@", "a", ")">>,
     <<"^", "{", "a", " ", "1", "}", " ", "[", "a", "]">>}
RdTexts ==
    {Join(ws, <<" ">>) : ws \in SeqsUpTo(RdWords, MaxWords)}
    \cup {Flat(ws) : ws \in SeqsUpTo(RdWords, MaxWords)}
    \cup RdLonger

\* lastOp records the value, how many builtin calls made it, and what the
\* printer, the tokenizer and the reader returned for it
RtAt(op) == status = "run" /\ lastOp.op = op
\* a stage of the round trip of the value lastOp.v
RtStage(op) == RtAt(op) /\ "v" \in DOMAIN lastOp
\* a stage of reading a text that is no value's rendering
RtText(op) == RtAt(op) /\ "v" \notin DOMAIN lastOp
RtMade(v) == [op |-> "value", v |-> v, made |-> lastOp.made + 1]
RtRest == <<envs, cells, stack, ret, status, lines, out, prog>>

\* (symbol v)
RtSymbol ==
    /\ RtStage("value")
    /\ lastOp.made < MaxMade
    /\ symbol(lastOp.v).k = "ok"
    /\ lastOp' = RtMade(symbol(lastOp.v).v)
    /\ UNCHANGED RtRest

\* (keyword v)
RtKeyword ==
    /\ RtStage("value")
    /\ lastOp.made < MaxMade
    /\ keyword(lastOp.v).k = "ok"
    /\ lastOp' = RtMade(keyword(lastOp.v).v)
    /\ UNCHANGED RtRest

\* (str v)
RtStr ==
    /\ RtStage("value")
    /\ lastOp.made < MaxMade
    /\ lastOp' = RtMade(make_string(<<lastOp.v>>, FALSE, <<>>).v)
    /\ UNCHANGED RtRest

\* (list v)
RtList ==
    /\ RtStage("value")
    /\ lastOp.made < MaxMade
    /\ lastOp' = RtMade(List(<<lastOp.v>>))
    /\ UNCHANGED RtRest

\* (seq v)
RtSeq ==
    /\ RtStage("value")
    /\ lastOp.made < MaxMade
    /\ seq(lastOp.v).k = "ok"
    /\ lastOp' = RtMade(seq(lastOp.v).v)
    /\ UNCHANGED RtRest

\* (first v)
RtFirst ==
    /\ RtStage("value")
    /\ lastOp.made < MaxMade
    /\ lastOp' = RtMade(first(lastOp.v).v)
    /\ UNCHANGED RtRest

\* s = v.pr_str(true)
RtPrStr ==
    /\ RtStage("value")
    /\ lastOp' = [op |-> "pr_str", v |-> lastOp.v, made |-> lastOp.made,
                  s |-> pr_str(lastOp.v, TRUE)]
    /\ UNCHANGED RtRest

\* read_str(s): Reader::new(tokenize(s))
RtTokenize ==
    /\ RtAt("pr_str") \/ RtAt("text")
    /\ lastOp' = [op |-> "tokenize", tokens |-> tokenize(lastOp.s)] @@ lastOp
    /\ UNCHANGED RtRest

\* read_str(s): read_form(&mut reader)
RtReadForm ==
    /\ RtAt("tokenize")
    /\ lastOp' = [op |-> "read_str", r |-> read_form(lastOp.tokens, 1).r] @@ lastOp
    /\ UNCHANGED RtRest

\* (hash-map v ... v) with 0..MaxArgs arguments
RtHashMap ==
    /\ RtStage("value")
    /\ \E n \in 0..MaxArgs :
          LET args == [k \in 1..n |-> lastOp.v]
          IN  lastOp' = [op |-> "hash-map", args |-> args, r |-> hashmap(args)]
    /\ UNCHANGED RtRest

\* the maps handed to assoc and the keys looked up afterwards
RtMaps == {HashMap(<<>>), HashMap(Vector(<<MalInt(1)>>) :> MalInt(2))}
RtKeys ==
    {Nil, MalInt(1), Str(<<"a">>), List(<<>>), Vector(<<>>),
     List(<<MalInt(1)>>), Vector(<<MalInt(1)>>), List(<<Vector(<<MalInt(1)>>)>>)}

\* (assoc m v 7) with the value v as the key
RtAssoc ==
    /\ RtStage("value")
    /\ \E m \in RtMaps :
          lastOp' = [op |-> "assoc", m |-> m, key |-> lastOp.v, val |-> MalInt(7),
                     r |-> assoc(<<m, lastOp.v, MalInt(7)>>)]
    /\ UNCHANGED RtRest

\* the map (assoc m key val) has been made
RtAssociated == RtAt("assoc") /\ lastOp.r.k = "ok"
RtLookup(op, key2, r) ==
    [op |-> op, m |-> lastOp.m, key |-> lastOp.key, val |-> lastOp.val,
     m2 |-> lastOp.r.v, key2 |-> key2, r |-> r]

\* (get (assoc m key val) key2)
RtGet ==
    /\ RtAssociated
    /\ \E key2 \in RtKeys : lastOp' = RtLookup("get", key2, get(lastOp.r.v, key2))
    /\ UNCHANGED RtRest

\* (contains? (assoc m key val) key2)
RtContains ==
    /\ RtAssociated
    /\ \E key2 \in RtKeys :
          lastOp' = RtLookup("contains?", key2, contains(lastOp.r.v, key2))
    /\ UNCHANGED RtRest

\* (assoc (assoc m key val) key2 8)
RtAssocAgain ==
    /\ RtAssociated
    /\ \E key2 \in RtKeys :
          lastOp' = RtLookup("assoc2", key2, assoc(<<lastOp.r.v, key2, MalInt(8)>>))
    /\ UNCHANGED RtRest

InitRead ==
    /\ envs = <<[data |-> <<>>, outer |-> 0]>>
    /\ cells = <<>>
    /\ stack = <<>>
    /\ ret = NoRet
    /\ status = "run"
    /\ prog = [name |-> "read", n |-> 0]
    /\ lines = <<>>
    /\ out = <<>>
    /\ \/ \E v \in RtBase : lastOp = [op |-> "value", v |-> v, made |-> 0]
       \/ \E s \in RdTexts : lastOp = [op |-> "text", s |-> s]

NextRead ==
    \/ RtSymbol \/ RtKeyword \/ RtStr \/ RtList \/ RtSeq \/ RtFirst
    \/ RtPrStr \/ RtTokenize \/ RtReadForm \/ RtHashMap
    \/ RtAssoc \/ RtGet \/ RtContains \/ RtAssocAgain

SpecRead == InitRead /\ [][NextRead]_vars

----------------------------------------------------------------------------
(* Properties *)

OutIs(k, r) == Len(out) >= k => out[k] = r
NotFound(s) == Err(MalErr("SymbolNotFound", s))

\* a swap is about to store: f.apply(args) has returned Ok to core.rs swap
SwapReturning == Running /\ Top.fn = "swap" /\ Top.pc = "applied" /\ ret.k = "ok"

(* C1: when (swap! a f args...) completes without error, the cell of a holds *)
(* the value f returned for (old, args...), swap! returns that value, no     *)
(* other cell changes, and every holder of the cell (the bindings a and b,   *)
(* the list v) sees the new value through deref.  For a builtin f the value  *)
(* is f applied to the arguments whose first is the cell's content at the    *)
(* call; (swap! a + 1 2) on 10 gives 13.                                     *)
SwapSetsAndReturns ==
    /\ [][(At("apply", "start") /\ Top.ast = Function("swap!")
            /\ Len(Top.acc) >= 2 /\ Top.acc[1].t = "atom")
            => /\ Len(stack') = Len(stack) + 1
               /\ stack'[Len(stack)].fn = "swap"
               /\ stack'[Len(stack)].x = Top.acc[1].a
               /\ stack'[Len(stack')].fn = "apply"
               /\ stack'[Len(stack')].ast = Top.acc[2]
               /\ stack'[Len(stack')].acc
                     = <<cells[Top.acc[1].a]>> \o SubSeq(Top.acc, 3, Len(Top.acc))
         ]_vars
    /\ [][SwapReturning =>
            /\ cells'[Top.x] = ret.v
            /\ ret' = Ok(ret.v)
            /\ \A c \in 1..Len(cells) : c # Top.x => cells'[c] = cells[c]
            /\ (Top.ast.t = "builtin" /\ Top.ast.f \in {"+", "-", "*", "/"}
                  => Ok(ret.v) = accumulate(Top.acc, Top.ast.f))
         ]_vars
    /\ [](prog.name = "swap_plus" =>
            /\ OutIs(2, Ok(MalInt(13)))
            /\ OutIs(3, Ok(MalInt(13))))
    /\ [](prog.name = "swap_shared" =>
            /\ OutIs(4, Ok(MalInt(1)))
            /\ OutIs(5, Ok(List(<<MalInt(1), MalInt(1), MalInt(1)>>)))
            /\ OutIs(6, Ok(MalInt(1))))

\* the swap through b has acted and a, b and the element of v all deref to 1
SwapSharedSeen ==
    /\ prog.name = "swap_shared"
    /\ Len(out) >= 5
    /\ out[4] = Ok(MalInt(1))
    /\ out[5] = Ok(List(<<MalInt(1), MalInt(1), MalInt(1)>>))
    /\ EnvGet(envs, 1, "a") = EnvGet(envs, 1, "b")
    /\ cells[EnvGet(envs, 1, "a").v.a] = MalInt(1)

\* a swap on cell c is waiting for f at stack position k
SwapPending(k, c) == stack[k].fn = "swap" /\ stack[k].x = c

(* C2: re-entrant swap! is not prevented.  In                                *)
(*   (swap! a (fn* (x) (do (swap! a + 10) (+ (deref a) 100))))   on 1, and   *)
(*   (swap! a (fn* (x) (do (reset! a 5) (list x (deref a)))))    on 1        *)
(* the inner update succeeds without error or panic, the deref inside f      *)
(* returns the inner update's value (11, 5), and the outer swap! completes   *)
(* and stores f's result (111, (1 5)).                                       *)
ReentrantSwapCompletes ==
    /\ prog.name \in {"swap_reenter", "swap_reset"} =>
            /\ status = "run"
            /\ \A k \in 1..Len(out) : out[k].k = "ok"
    /\ prog.name = "swap_reenter" =>
            /\ OutIs(2, Ok(MalInt(111)))
            /\ OutIs(3, Ok(MalInt(111)))
            /\ (Len(out) >= 2 => cells[1] = MalInt(111))
    /\ prog.name = "swap_reset" =>
            /\ OutIs(2, Ok(List(<<MalInt(1), MalInt(5)>>)))
            /\ OutIs(3, Ok(List(<<MalInt(1), MalInt(5)>>)))
    \* inside f, after the inner swap has stored, the cell holds the inner value
    /\ \A k \in 1..Len(stack) :
            /\ prog.name = "swap_reenter"
            /\ SwapPending(k, 1)
            /\ \E j \in k + 1..Len(stack) : stack[j].ast = List(<<Sym("deref"), Sym("a")>>)
            => cells[1] = MalInt(11)

\* the outer swap is still waiting for f while the inner update is in the cell
\* and f derefs it
ReentrantInnerVisible ==
    /\ prog.name = "swap_reenter"
    /\ Len(stack) > 2 /\ Len(cells) = 1
    /\ SwapPending(2, 1)
    /\ cells[1] = MalInt(11)
    /\ ret = Ok(MalInt(11))
    /\ Top.fn = "eval" /\ Top.ast = List(<<Sym("deref"), Sym("a")>>)

(* C3: (try* body (catch* sym handler)).  A body that evaluates without      *)
(* error gives its value and the handler is not evaluated.  A body that      *)
(* raises has the handler evaluated in a new child of the current            *)
(* environment in which sym alone is bound, to the thrown value for throw    *)
(* and to the message string for any other error.  (try* body) without a     *)
(* catch* clause hands the body's error on unchanged.                        *)
TryCatchContract ==
    /\ [][Running /\ Top.fn = "eval" /\ Top.pc = "try" /\ ret.k = "ok"
            => stack' = Popped /\ ret' = ret /\ envs' = envs /\ cells' = cells]_vars
    /\ [][(Running /\ Top.fn = "eval" /\ Top.pc = "try" /\ ret.k = "err"
                /\ Len(Top.ast.l) = 2)
            => stack' = Popped /\ ret' = ret /\ envs' = envs /\ cells' = cells]_vars
    /\ [][(Running /\ Top.fn = "eval" /\ Top.pc = "try" /\ ret.k = "err"
                /\ Len(Top.ast.l) > 2 /\ IsCatch(Top.ast.l[3])
                /\ Len(Top.ast.l[3].l) = 3)
            => LET c == Top.ast.l[3].l
                   new == Len(envs) + 1
               IN  /\ Len(envs') = new
                   /\ \A e \in 1..Len(envs) : envs'[e] = envs[e]
                   /\ envs'[new].outer = Top.env
                   /\ DOMAIN envs'[new].data = {c[2].n}
                   /\ (ret.e.kind = "Throw"
                         => envs'[new].data[c[2].n] = ret.e.val)
                   /\ (ret.e.kind # "Throw"
                         => envs'[new].data[c[2].n] = Str(ErrToString(ret.e)))
                   /\ stack'[Len(stack')] = EvalFrame(c[3], new)
                   /\ Len(stack') = Len(stack) + 1]_vars
    /\ [](prog.name = "try_ok" =>
            /\ OutIs(1, Ok(MalInt(7)))
            /\ OutIs(2, NotFound("h"))
            /\ OutIs(3, Ok(MalInt(8))))
    /\ [](prog.name = "try_throw" =>
            /\ OutIs(1, Ok(List(<<MalInt(1), MalInt(2)>>)))
            /\ OutIs(2, Ok(List(<<MalInt(3)>>)))
            /\ OutIs(3, NotFound("h"))
            /\ OutIs(4, NotFound("e")))
    /\ [](prog.name = "try_error" =>
            /\ OutIs(1, Ok(Str("zz not found")))
            /\ OutIs(2, Ok(Str("Does not compute: Expected two or more arguments")))
            /\ OutIs(3, Ok(Str("Error: Cannot apply non-function"))))
    /\ [](prog.name = "try_nocatch" =>
            /\ OutIs(1, Err(Throw(MalInt(3))))
            /\ OutIs(2, NotFound("zz")))

\* the handler of (try* (throw (list 1 2)) (catch* e e)) runs in a child of
\* repl_env in which e is the thrown list
TryHandlerRuns ==
    /\ prog.name = "try_throw"
    /\ stack # <<>>
    /\ Top.fn = "eval" /\ Top.ast = Sym("e")
    /\ Top.env # 1
    /\ envs[Top.env].outer = 1
    /\ envs[Top.env].data = ("e" :> List(<<MalInt(1), MalInt(2)>>))

\* the programs whose try* body fails in each of the ways the claim lists
TryFailing ==
    {"try_throw", "try_error", "try_type", "try_div", "try_arity_fn",
     "try_arity_builtin"}

(* C4: every failure raised while the body of a try* with a catch* clause    *)
(* is evaluated is caught: symbol-not-found, a wrong number of arguments to  *)
(* a closure or a builtin, arithmetic on a non-integer, an arithmetic error  *)
(* and a user throw all reach the handler, so the interpreter never aborts   *)
(* and each such line ends in the handler's value.                           *)
TryCatchesEveryFailure ==
    prog.name \in TryFailing =>
        /\ status = "run"
        /\ (prog.name # "try_throw" => \A k \in 1..Len(out) : out[k].k = "ok")

\* (try* (+ 1 "a") (catch* e e)) has aborted inside the body: the try* frame
\* is still waiting below the apply frame of +
TryBodyAborts ==
    /\ prog.name = "try_type"
    /\ status = "panic"
    /\ Len(stack) >= 2
    /\ stack[1].fn = "eval" /\ stack[1].pc = "try"
    /\ Top.fn = "apply" /\ Top.ast = Function("+")

(* C5: integer division by zero, (/ 8 d 0) with d in 1..MaxN+1, ends in an   *)
(* error value of the builtin that reaches the driver: the interpreter does  *)
(* not abort and the line's result is an error, not a value.                 *)
DivisionByZeroIsAnError ==
    prog.name = "div_zero" =>
        /\ status = "run"
        /\ (Len(out) >= 1 => out[1].k = "err")

\* the division (/ 8 d 0) has aborted the interpreter before any result
DivisionByZeroAborts ==
    /\ prog.name = "div_zero"
    /\ status = "panic"
    /\ out = <<>>
    /\ Top.fn = "apply" /\ Top.ast = Function("/")
    /\ Top.acc[3] = MalInt(0)

\* the applied closure's body starts in a new frame whose outer is the frame
\* the closure captured
AppliesInCapturedEnv(f, args) ==
    LET b == EnvBind(EnvNew(envs, f.env), Len(envs) + 1, f.params, args, cells)
    IN  b.r = "ok" =>
            /\ Len(envs') = Len(envs) + 1
            /\ envs'[Len(envs')].outer = f.env
            /\ stack'[Len(stack')].ast = f.ast
            /\ stack'[Len(stack')].env = Len(envs')

(* C6: closures are lexically scoped.  The body of an applied closure is     *)
(* evaluated in a child of the environment captured by fn*, never of the     *)
(* caller's.  ((let* (x 1) (fn* () x))) is 1 with x unbound in the root or   *)
(* bound there to 2..MaxN+1, and under a caller's (let* (x 2) ..); a free    *)
(* symbol bound only in the caller, (let* (y 2) (h)) with h = (fn* () y),    *)
(* is not found.                                                             *)
LexicalScope ==
    /\ [][(Back("eval", "args") /\ ret.v.l[1].t = "fn")
            => AppliesInCapturedEnv(ret.v.l[1], Tail(ret.v.l))]_vars
    /\ [][(At("apply", "start") /\ Top.ast.t = "fn")
            => AppliesInCapturedEnv(Top.ast, Top.acc)]_vars
    /\ [](prog.name = "lexical" =>
            /\ OutIs(2, Ok(MalInt(1)))
            /\ OutIs(3, Ok(MalInt(1)))
            /\ OutIs(5, Ok(MalInt(1)))
            /\ OutIs(7, NotFound("y")))

\* x is bound in the root to another value and in the caller to 2, and the
\* closure g applied there has returned 1
LexicalUnderShadowing ==
    /\ prog.name = "lexical"
    /\ prog.n = MaxN
    /\ EnvGet(envs, 1, "x") = Ok(MalInt(MaxN + 1))
    /\ Len(out) = 5
    /\ out[5] = Ok(MalInt(1))
    /\ \E e \in 1..Len(envs) : envs[e].outer = 1 /\ envs[e].data = ("x" :> MalInt(2))

\* the self-recursive closures whose recursive call is in tail position
TailRecursive == {"loop_if", "loop_all"}

\* the body of f, as def! stored it in repl_env
BodyOfF == EnvGet(envs, 1, "f").v.ast

\* the top activation of eval is at its loop head with the body of f in a
\* frame binding n to k
InBodyOfF(k) ==
    /\ Running /\ Top.fn = "eval" /\ Top.pc = "loop" /\ ret.k = "none"
    /\ Len(lines) = 0 /\ Len(out) = 1
    /\ Top.ast = BodyOfF
    /\ EnvGet(envs, Top.env, "n") = Ok(MalInt(k))

(* C7: tail positions do not nest host calls of eval.  For a closure f that  *)
(* calls itself from the chosen branch of if (loop_if), and from the result  *)
(* of the eval form inside the result of quasiquote inside the last form of  *)
(* do inside the body of let* (loop_all), every activation of f's body runs  *)
(* in the one eval activation the driver started, and the number of nested   *)
(* eval activations never exceeds 3, for every count 0..MaxN of successive   *)
(* tail calls.                                                               *)
TailCallsDoNotNest ==
    prog.name \in TailRecursive =>
        /\ EvalDepth <= 3
        /\ \A k \in 0..prog.n : InBodyOfF(k) => Len(stack) = 1

\* after MaxN successive tail calls through let*, do, quasiquote, eval, if and
\* the closure's body, f's body runs with n = 0 in the driver's activation
TailCallsReachZero ==
    /\ prog.name = "loop_all"
    /\ prog.n = MaxN
    /\ InBodyOfF(0)
    /\ Len(stack) = 1
    /\ Len(envs) > 1 + MaxN

\* the outer chain of frame e, nearest first
RECURSIVE Chain(_, _)
Chain(es, e) ==
    IF es[e].outer = 0 THEN <<e>> ELSE <<e>> \o Chain(es, es[e].outer)

\* the positions on e's chain whose local table contains s
Holders(es, e, s) ==
    {k \in 1..Len(Chain(es, e)) : s \in DOMAIN es[Chain(es, e)[k]].data}

\* the nearest frame on e's chain whose local table contains s
Nearest(es, e, s) ==
    Chain(es, e)[CHOOSE k \in Holders(es, e, s) :
                    \A j \in Holders(es, e, s) : k <= j]

\* what a lookup of s from e must give
Lookup(es, e, s) ==
    IF Holders(es, e, s) = {} THEN NotFound(s)
    ELSE Ok(es[Nearest(es, e, s)].data[s])

(* C8: Env.get(symbol) returns the value bound in the nearest frame of the   *)
(* outer chain, starting at the frame itself, whose local table contains     *)
(* symbol, so an inner binding shadows every outer one; it returns           *)
(* SymbolNotFound exactly when no frame of the chain contains the symbol.    *)
GetReturnsNearest ==
    /\ \A e \in Frames, s \in EnvSymbols :
        /\ EnvGet(envs, e, s) = Lookup(envs, e, s)
        /\ EnvGet(envs, e, s).k = "err" <=> Holders(envs, e, s) = {}
    /\ lastOp.op = "get" =>
        /\ lastOp.r = Lookup(envs, lastOp.env, lastOp.sym)
        /\ lastOp.found =
              IF Holders(envs, lastOp.env, lastOp.sym) = {} THEN 0
              ELSE Nearest(envs, lastOp.env, lastOp.sym)

\* a get on a child frame returned the child's binding although the parent
\* binds the same symbol to another value
GetSeesShadowing ==
    /\ lastOp.op = "get"
    /\ envs[lastOp.env].outer # 0
    /\ lastOp.sym \in DOMAIN envs[lastOp.env].data
    /\ lastOp.sym \in DOMAIN envs[envs[lastOp.env].outer].data
    /\ envs[envs[lastOp.env].outer].data[lastOp.sym]
          # envs[lastOp.env].data[lastOp.sym]
    /\ lastOp.r = Ok(envs[lastOp.env].data[lastOp.sym])

\* frame f is on the outer chain of frame e (e is f or a descendant of f)
OnChain(es, e, f) == \E k \in 1..Len(Chain(es, e)) : Chain(es, e)[k] = f

(* C9: Env.set(symbol, value) changes only the local table of the frame it   *)
(* is called on, and there only the entry of symbol, which becomes value     *)
(* whatever it was (the last set wins).  Every lookup from a frame that is   *)
(* not the frame or one of its descendants, its parent included, returns    *)
(* what it returned before the set.                                          *)
SetIsLocal ==
    [][lastOp'.op = "set" =>
        LET e == lastOp'.env
            s == lastOp'.sym
        IN  /\ Len(envs') = Len(envs)
            /\ \A f \in Frames : f # e => envs'[f] = envs[f]
            /\ envs'[e].outer = envs[e].outer
            /\ DOMAIN envs'[e].data = DOMAIN envs[e].data \cup {s}
            /\ \A t \in DOMAIN envs[e].data :
                  t # s => envs'[e].data[t] = envs[e].data[t]
            /\ envs'[e].data[s] = lastOp'.val
            /\ EnvGet(envs', e, s) = Ok(lastOp'.val)
            /\ \A f \in Frames, t \in EnvSymbols :
                  ~OnChain(envs, f, e) => EnvGet(envs', f, t) = EnvGet(envs, f, t)
    ]_vars

\* a set on a child frame of a symbol its parent binds to another value: the
\* child sees the new value, the parent still its own
SetOnChildLeavesParent ==
    /\ lastOp.op = "set"
    /\ envs[lastOp.env].outer # 0
    /\ EnvGet(envs, lastOp.env, lastOp.sym) = Ok(lastOp.val)
    /\ lastOp.sym \in DOMAIN envs[envs[lastOp.env].outer].data
    /\ EnvGet(envs, envs[lastOp.env].outer, lastOp.sym) # Ok(lastOp.val)

\* binds is (p1 ... pk & r): the rest marker immediately before the last one
HasRestMarker(binds) ==
    /\ IsSeqVal(binds)
    /\ Len(binds.l) >= 2
    /\ binds.l[Len(binds.l) - 1] = Sym("&")

(* C10: Env.bind supports the rest marker.  For parameters (p1 ... pk & r)   *)
(* and n >= k arguments, bind succeeds, sets p1..pk to the first k           *)
(* arguments and r to the list of the remaining n - k (the empty list when   *)
(* n = k), and creates no binding for the symbol &.                          *)
BindRestMarker ==
    /\ lastOp.op = "bind"
    /\ HasRestMarker(lastOp.binds)
    /\ Len(lastOp.exprs) >= Len(lastOp.binds.l) - 2
    => LET b == lastOp.binds.l
           k == Len(b) - 2
           n == Len(lastOp.exprs)
           data == envs[lastOp.env].data
       IN  /\ lastOp.r = "ok"
           /\ status = "run"
           /\ DOMAIN data = {b[i].n : i \in 1..k} \cup {b[k + 2].n}
           /\ \A i \in 1..k : data[b[i].n] = lastOp.exprs[i]
           /\ data[b[k + 2].n] = List(SubSeq(lastOp.exprs, k + 1, n))

\* bind of (a & r) to 1 2 3 has bound a, & and r to one argument each
BindTreatsMarkerAsSymbol ==
    /\ lastOp.op = "bind"
    /\ lastOp.binds = List(<<Sym("a"), Sym("&"), Sym("r")>>)
    /\ lastOp.exprs = <<MalInt(1), MalInt(2), MalInt(3)>>
    /\ lastOp.r = "ok"
    /\ envs[lastOp.env].data = ("a" :> MalInt(1) @@ "&" :> MalInt(2) @@ "r" :> MalInt(3))

\* binds is a sequence of plain parameters, none of them the rest marker
PositionalOnly(binds) ==
    /\ IsSeqVal(binds)
    /\ \A i \in 1..Len(binds.l) : binds.l[i].t = "sym" /\ binds.l[i].n # "&"

(* C11: a closure called with fewer arguments than its positional            *)
(* parameters, ((fn* (a b) ..)) with 0 or 1 argument, gives an error value:  *)
(* the interpreter does not abort, the line's result is an error, and the    *)
(* body (def! ran 1) is not evaluated.                                       *)
TooFewArgumentsIsAnError ==
    prog.name = "arity" =>
        /\ status = "run"
        /\ (Len(out) >= 1 => out[1].k = "err")
        /\ "ran" \notin DOMAIN envs[1].data

\* the two-parameter closure was about to be applied to fewer arguments and
\* the interpreter has aborted in bind, before any result
TooFewArgumentsAborts ==
    /\ prog.name = "arity"
    /\ status = "panic"
    /\ out = <<>>
    /\ Top.fn = "eval" /\ Top.pc = "args"
    /\ ret.k = "ok" /\ ret.v.l[1].t = "fn"
    /\ PositionalOnly(ret.v.l[1].params)
    /\ Len(ret.v.l) - 1 < Len(ret.v.l[1].params.l)

\* a let* form with a binding list of even length has reached its arm
LetStarts ==
    /\ Arm("let*")
    /\ Len(Top.ast.l) >= 2
    /\ IsSeqVal(Top.ast.l[2])
    /\ Len(Top.ast.l[2].l) % 2 = 0

(* C12: let* creates a fresh child of the current environment, evaluates     *)
(* each binding value there in order, so that it sees the earlier bindings   *)
(* of the same let*, sets only that child, and evaluates the body there;     *)
(* the enclosing environment keeps its bindings.  With a = N+2 in the root,  *)
(* let* of (a 1 b (+ a 2)) with the product of a and b as body is 3,         *)
(* (let* [c a a 7 d (+ a c)] d) is N+9, a is still N+2 and b, z are unbound  *)
(* afterwards; a binding list of odd length is an error.                     *)
LetStarSequentialChild ==
    /\ [][LetStarts =>
            /\ envs' = Append(envs, [data |-> <<>>, outer |-> Top.env])
            /\ stack'[Len(stack')].x = Len(envs')]_vars
    /\ [][(At("eval", "let") /\ 2 * Top.i <= Len(Top.ast.l[2].l))
            => /\ stack'[Len(stack')].env = Top.x
               /\ stack'[Len(stack')].ast = Top.ast.l[2].l[2 * Top.i]
               /\ envs' = envs]_vars
    /\ [][Back("eval", "let_wait") =>
            /\ Len(envs') = Len(envs)
            /\ \A e \in 1..Len(envs) : e # Top.x => envs'[e] = envs[e]
            /\ envs'[Top.x].data[Top.ast.l[2].l[2 * Top.i - 1].n] = ret.v]_vars
    /\ [][(At("eval", "let") /\ 2 * Top.i > Len(Top.ast.l[2].l)
            /\ Len(Top.ast.l) >= 3)
            => /\ stack'[Len(stack')].env = Top.x
               /\ stack'[Len(stack')].ast = Top.ast.l[3]
               /\ Len(stack') = Len(stack)
               /\ envs' = envs]_vars
    /\ [](prog.name = "let" =>
            /\ OutIs(2, Ok(MalInt(3)))
            /\ OutIs(3, Ok(MalInt(prog.n + 2)))
            /\ OutIs(4, NotFound("b"))
            /\ OutIs(5, Ok(MalInt(prog.n + 9)))
            /\ OutIs(6, Err(MalErr("InvalidLet",
                        "Odd number of parameters in the binding list")))
            /\ OutIs(7, Ok(MalInt(1)))
            /\ OutIs(8, NotFound("z"))
            /\ OutIs(9, Ok(MalInt(prog.n + 2)))
            /\ (Len(out) >= 1 =>
                    /\ envs[1].data["a"] = MalInt(prog.n + 2)
                    /\ DOMAIN envs[1].data \cap {"b", "c", "d", "q", "z"} = {}))

\* the body, the product of a and b, runs in the child frame holding a = 1 and b = 3 while
\* the root still binds a to N+2
LetBodyInChild ==
    /\ prog.name = "let"
    /\ prog.n = MaxN
    /\ stack # <<>>
    /\ Top.fn = "eval" /\ Top.pc = "loop"
    /\ Top.ast = List(<<Sym("*"), Sym("a"), Sym("b")>>)
    /\ envs[Top.env].outer = 1
    /\ envs[Top.env].data = ("a" :> MalInt(1) @@ "b" :> MalInt(3))
    /\ envs[1].data["a"] = MalInt(MaxN + 2)

\* the last frame of e's outer chain
RootOf(es, e) == Chain(es, e)[Len(Chain(es, e))]

(* C13: (eval x) evaluates x in the current environment and then evaluates   *)
(* the resulting form in the root environment, the frame at the end of the   *)
(* outer chain, at any nesting depth.  With y = 7 in the root, the form      *)
(* (eval (quote y)) is 7 inside 0..MaxN nested let* forms binding y and      *)
(* inside a closure with parameter y; a symbol bound only by an enclosing    *)
(* let* is not found; a def! in the evaluated form binds in the root.        *)
EvalFormUsesRoot ==
    /\ [][Arm("eval") /\ Len(Top.ast.l) >= 2 =>
            /\ stack'[Len(stack')].ast = Top.ast.l[2]
            /\ stack'[Len(stack')].env = Top.env]_vars
    /\ [][Back("eval", "evalform") =>
            /\ stack' = Replaced(EvalFrame(ret.v, RootOf(envs, Top.env)))
            /\ envs[stack'[Len(stack')].env].outer = 0
            /\ envs' = envs]_vars
    /\ [](prog.name = "evalroot" =>
            /\ OutIs(2, Ok(MalInt(7)))
            /\ OutIs(3, Ok(MalInt(7)))
            /\ OutIs(4, NotFound("w"))
            /\ OutIs(5, Ok(MalInt(7)))
            /\ OutIs(6, Ok(MalInt(5)))
            /\ OutIs(7, Ok(MalInt(5)))
            /\ OutIs(8, Ok(MalInt(7)))
            /\ (Len(out) >= 6 => envs[1].data["z"] = MalInt(5)))

\* the form y produced by (eval (quote y)) under MaxN nested let* frames
\* binding y is evaluated in the root frame
EvalFormUnderNesting ==
    /\ prog.name = "evalroot"
    /\ prog.n = MaxN
    /\ Len(out) = 7
    /\ stack # <<>>
    /\ Top.fn = "eval" /\ Top.pc = "loop" /\ Top.ast = Sym("y")
    /\ Top.env = 1
    /\ \E e \in 1..Len(envs) :
          /\ Len(Chain(envs, e)) = MaxN + 1
          /\ \A k \in 1..MaxN : envs[Chain(envs, e)[k]].data = ("y" :> MalInt(k))

\* the closure (fn* (a) (list (quote if) a 1 2)) of the defmacro program, as
\* a function or as a macro
IfBuilder(is_macro) ==
    MalFunction(List(<<Sym("a")>>),
                List(<<Sym("list"), List(<<Sym("quote"), Sym("if")>>), Sym("a"),
                       MalInt(1), MalInt(2)>>),
                1, is_macro)

(* C14: defmacro! produces a copy.  After (def! f (fn* ...)) and             *)
(* (defmacro! m f), m is bound to a closure with is_macro = true and the     *)
(* params, body and captured environment of f, and f is still a function:    *)
(* (macro? m) and (fn? f) are true, (fn? m) and (macro? f) are false, and f  *)
(* stays so to the end of the program.  (defmacro! k 1) returns an error     *)
(* and binds nothing.                                                        *)
DefmacroCopies ==
    /\ [][Back("eval", "defmacro") /\ ret.v.t = "fn" =>
            /\ ret'.k = "ok"
            /\ ret'.v = [ret.v EXCEPT !.is_macro = TRUE]
            /\ \A e \in 1..Len(envs) : \A s \in DOMAIN envs[e].data :
                  envs[e].data[s] = ret.v /\ s # PrStr(Top.ast.l[2], cells)
                      => envs'[e].data[s] = ret.v]_vars
    /\ [][Back("eval", "defmacro") /\ ret.v.t # "fn" =>
            /\ ret'.k = "err"
            /\ envs' = envs]_vars
    /\ [](prog.name = "defmacro" =>
            /\ OutIs(2, Ok(IfBuilder(TRUE)))
            /\ OutIs(3, Ok(Bool(TRUE)))
            /\ OutIs(4, Ok(Bool(FALSE)))
            /\ OutIs(5, Ok(Bool(FALSE)))
            /\ OutIs(6, Ok(Bool(TRUE)))
            /\ OutIs(7, Ok(List(<<Sym("if"), Bool(TRUE), MalInt(1), MalInt(2)>>)))
            /\ OutIs(8, Ok(MalInt(1)))
            /\ OutIs(9, Err(MalErr("Generic", "cannot set non-function as a macro")))
            /\ OutIs(10, NotFound("k"))
            /\ (Len(out) >= 1 => envs[1].data["f"] = IfBuilder(FALSE))
            /\ (Len(out) >= 2 => envs[1].data["m"] = IfBuilder(TRUE))
            /\ "k" \notin DOMAIN envs[1].data)

\* after (defmacro! m f) the root binds m to the macro and f to the function,
\* and both predicates on f have answered
DefmacroLeavesFunction ==
    /\ prog.name = "defmacro"
    /\ Len(out) = 6
    /\ out[5] = Ok(Bool(FALSE)) /\ out[6] = Ok(Bool(TRUE))
    /\ envs[1].data["m"] = [envs[1].data["f"] EXCEPT !.is_macro = TRUE]
    /\ ~envs[1].data["f"].is_macro

\* the argument form of the macro_order program that the macro m drops
DroppedForm == List(<<Sym("swap!"), Sym("log"), Sym("+"), MalInt(100)>>)
\* the argument form that m returns
KeptForm == List(<<Sym("swap!"), Sym("log"), Sym("+"), MalInt(10)>>)

(* C15: macro expansion precedes argument evaluation.  When the head of a    *)
(* list resolves to a macro, the macro is applied to the tail forms as they  *)
(* stand, its result replaces the list, and this repeats while the head      *)
(* resolves to a macro; the final form is then evaluated in the caller's     *)
(* environment.  With m = (fn* (x y) (do (swap! log + 1) x)) as a macro,     *)
(* (m (swap! log + 10) (swap! log + 100)) is 11: the body runs first, the    *)
(* second form is never evaluated.  macroexpand returns the expanded form    *)
(* unevaluated.                                                              *)
MacroExpandsBeforeArguments ==
    /\ [][(At("macroexpand", "loop") /\ is_macro_call(Top.ast, Top.env)) =>
            /\ stack'[Len(stack')].fn = "apply"
            /\ stack'[Len(stack')].ast = EnvGet(envs, Top.env, Top.ast.l[1].n).v
            /\ stack'[Len(stack')].acc = Tail(Top.ast.l)
            /\ envs' = envs /\ cells' = cells]_vars
    /\ [][Back("macroexpand", "applied") =>
            /\ stack' = Replaced(MacroexpandFrame(ret.v, Top.env))
            /\ envs' = envs /\ cells' = cells]_vars
    /\ [][(At("macroexpand", "loop") /\ ~is_macro_call(Top.ast, Top.env)) =>
            ret' = Ok(Top.ast) /\ stack' = Popped]_vars
    /\ [][Back("eval", "mx") =>
            stack' = Replaced(EvalFrame(ret.v, Top.env))]_vars
    /\ [](prog.name = "macro_order" =>
            /\ \A k \in 1..Len(stack) :
                  stack[k].fn = "eval" => stack[k].ast # DroppedForm
            /\ OutIs(3, Ok(MalInt(11)))
            /\ OutIs(4, Ok(MalInt(11)))
            /\ OutIs(5, Ok(KeptForm))
            /\ OutIs(6, Ok(MalInt(12)))
            /\ OutIs(8, Ok(MalInt(7)))
            /\ OutIs(9, Ok(MalInt(7)))
            /\ OutIs(10, Ok(MalInt(5)))
            /\ OutIs(11, Ok(MalInt(15))))

\* the body of m runs on the unevaluated forms: x is bound to the form
\* (swap! log + 10), y to the other form, and log is still 0
MacroBodySeesForms ==
    /\ prog.name = "macro_order"
    /\ Len(out) = 2
    /\ stack # <<>>
    /\ Top.fn = "eval" /\ Top.pc = "loop"
    /\ Top.ast.t = "list" /\ Top.ast.l[1] = Sym("do")
    /\ envs[Top.env].data = ("x" :> KeptForm @@ "y" :> DroppedForm)
    /\ cells = <<MalInt(0)>>

\* the values 1 .. n as a sequence of integers, and n-1 .. 0
UpTo(n) == [k \in 1..n |-> MalInt(k)]
DownFrom(n) == [k \in 1..n |-> MalInt(n - k)]

(* C16: in a list that is neither a special form nor a macro call the head   *)
(* and then each argument are evaluated once, left to right, all before the  *)
(* callee is invoked; an error in one element stops the evaluation of the    *)
(* later ones and the callee is not invoked.  With (t k) recording k in the  *)
(* atom log, ((do (t 0) list) (t 1) .. (t N)) is (1 .. N) and leaves         *)
(* (N .. 1 0) in log; ((do (t 0) t) (t 1) zz (t 2)) fails on zz and leaves   *)
(* (1 0).                                                                    *)
ArgumentsLeftToRight ==
    /\ [](\A k \in 1..Len(stack) :
            stack[k].fn = "eval_ast" /\ IsSeqVal(stack[k].ast) =>
                /\ stack[k].i = Len(stack[k].acc) + 1
                /\ stack[k].i <= Len(stack[k].ast.l) + 1
                /\ (stack[k].pc = "elem" /\ k < Len(stack) =>
                        stack[k + 1].fn = "eval"))
    /\ [][(At("eval_ast", "start") /\ IsSeqVal(Top.ast)
            /\ Top.i <= Len(Top.ast.l))
            => /\ stack'[Len(stack')] = EvalFrame(Top.ast.l[Top.i], Top.env)
               /\ stack'[Len(stack)].pc = "elem"
               /\ cells' = cells /\ envs' = envs]_vars
    /\ [][(Running /\ Top.fn = "eval_ast" /\ Top.pc = "elem" /\ ret.k = "err")
            => stack' = Popped /\ ret' = ret /\ cells' = cells]_vars
    /\ [][(Running /\ Top.fn = "eval" /\ Top.pc = "args" /\ ret.k = "err")
            => stack' = Popped /\ ret' = ret /\ cells' = cells /\ envs' = envs]_vars
    /\ [](Back("eval", "args") => Len(ret.v.l) = Len(Top.ast.l))
    /\ [](prog.name = "order" =>
            /\ OutIs(3, Ok(List(UpTo(prog.n))))
            /\ OutIs(4, Ok(List(DownFrom(prog.n + 1))))
            /\ OutIs(6, NotFound("zz"))
            /\ OutIs(7, Ok(List(DownFrom(2)))))

\* the head and MaxN arguments have been evaluated, in this order, and the
\* callee list is about to be applied to the MaxN values
ArgumentsEvaluatedInOrder ==
    /\ prog.name = "order"
    /\ prog.n = MaxN
    /\ Len(out) = 2
    /\ stack # <<>>
    /\ Top.fn = "eval" /\ Top.pc = "args"
    /\ ret = Ok(List(<<Function("list")>> \o UpTo(MaxN)))
    /\ cells = <<List(DownFrom(MaxN + 1))>>

(* C17: a do form with no expressions evaluates to nil as a normal result,  *)
(* at top level, as the body of a let* and as the body of a closure: the     *)
(* interpreter does not abort and the line's result is the value nil.        *)
EmptyDoIsNil ==
    prog.name = "do_empty" =>
        /\ status = "run"
        /\ OutIs(1, Ok(Nil))

\* the do arm has aborted on the form (do), before any result
EmptyDoAborts ==
    /\ prog.name = "do_empty"
    /\ status = "panic"
    /\ out = <<>>
    /\ Top.fn = "eval" /\ Top.ast = List(<<Sym("do")>>)

\* x is (unquote y); e is (splice-unquote s)
IsUnquote(x) == x.t = "list" /\ Len(x.l) >= 2 /\ x.l[1] = Sym("unquote")
IsSplice(e) == e.t = "list" /\ Len(e.l) >= 2 /\ e.l[1] = Sym("splice-unquote")

\* the transformation as a fold from the right: QqFold(l, i, acc) has the
\* elements after the i-th in acc
RECURSIVE QqTransform(_)
RECURSIVE QqFold(_, _, _)
QqFold(l, i, acc) ==
    IF i = 0 THEN acc
    ELSE QqFold(l, i - 1,
                IF IsSplice(l[i]) THEN List(<<Sym("concat"), l[i].l[2], acc>>)
                ELSE List(<<Sym("cons"), QqTransform(l[i]), acc>>))

QqTransform(x) ==
    CASE IsUnquote(x) -> x.l[2]
      [] x.t = "list" /\ ~IsUnquote(x) -> QqFold(x.l, Len(x.l), List(<<>>))
      [] x.t = "vec" -> List(<<Sym("vec"), QqFold(x.l, Len(x.l), List(<<>>))>>)
      [] x.t = "sym" -> List(<<Sym("quote"), x>>)
      [] OTHER -> x

\* the programs whose quasiquote forms are well formed
QqPrograms == {"qq", "misc", "loop_all"}

EvalOfExpansionIsEvalOfQuasiquote ==
    prog.name = "qq" /\ Len(out) >= 11 => out[5] = out[11]

(* C19 amended: (quasiquoteexpand x) changes no environment and no atom, and *)
(* (eval (quasiquoteexpand x)), in the root environment or under a let* that *)
(* shadows a root binding, has the outcome and the effect on atoms that      *)
(* (quasiquote x) has in the root environment.                               *)
ExpansionEvaluatesAsQuasiquote ==
    /\ [][Arm("quasiquoteexpand") => envs' = envs /\ cells' = cells]_vars
    /\ [](prog.name = "qq" =>
            /\ (Len(out) = 3 => cells = <<MalInt(0)>> /\ Len(envs) = 1)
            /\ (Len(out) >= 8 => out[5] = out[8])
            /\ (Len(out) >= 9 => out[6] = out[9])
            /\ (Len(out) >= 13 => out[13] = out[8]))

\* for x = ((unquote (swap! c + 1))) both forms returned (1) and left 1 in c
ExpansionRunsUnquotedSwap ==
    /\ prog.name = "qq"
    /\ Len(out) >= 13
    /\ out[5] = Ok(List(<<MalInt(1)>>))
    /\ out[8] = Ok(List(<<MalInt(1)>>))
    /\ out[6] = Ok(MalInt(1))
    /\ out[9] = Ok(MalInt(1))

(* C20 as stated: for every value v without function and atom, the values   *)
(* made by symbol, keyword and str included, reading the readable rendering  *)
(* of v gives a value equal to v: read_str(pr_str(v, true)) = v.             *)
ReadPrintRoundTrip ==
    RtStage("read_str") => lastOp.r.k = "ok" /\ MalEq(lastOp.r.v, lastOp.v)

\* the symbol made by (symbol "1") is printed as 1 and read back as the
\* integer 1
SymbolReadBackAsInteger ==
    /\ RtStage("read_str")
    /\ lastOp.v = Sym(<<"1">>)
    /\ lastOp.s = <<"1">>
    /\ lastOp.r = Ok(MalInt(1))

\* the symbol each reader macro stands for
ReaderMacros ==
    <<"'">> :> <<"q", "u", "o", "t", "e">>
    @@ <<Backtick>> :> <<"q", "u", "a", "s", "i", "q", "u", "o", "t", "e">>
    @@ <<"~">> :> <<"u", "n", "q", "u", "o", "t", "e">>
    @@ <<"~", "@">> :> <<"s", "p", "l", "i", "c", "e", "-", "u", "n", "q", "u", "o", "t", "e">>
    @@ <<"@">> :> <<"d", "e", "r", "e", "f">>

(* C21 as stated: the reader rewrites a reader macro into the list headed by *)
(* its symbol: 'x reads as (quote x), and likewise for quasiquote, unquote,  *)
(* splice-unquote and deref; ^m v reads as (with-meta v m).  Here x is a or  *)
(* 1, m is a and v is 1.                                                     *)
ReaderMacrosRewrite ==
    RtText("read_str") =>
        /\ \A m \in DOMAIN ReaderMacros : \A x \in {<<"a">>, <<"1">>} :
              lastOp.s = m \o x =>
                  lastOp.r = Ok(List(<<Sym(ReaderMacros[m]), try_from(x).v>>))
        /\ (lastOp.s = <<"^", " ", "a", " ", "1">> =>
              lastOp.r = Ok(List(<<Sym(<<"w", "i", "t", "h", "-", "m", "e", "t", "a">>), MalInt(1), Sym(<<"a">>)>>)))

\* the text 'a has been read as the symbol named '
QuoteReadAsSymbol ==
    /\ RtText("read_str")
    /\ lastOp.s = <<"'", "a">>
    /\ lastOp.tokens = <<(<<"'">>), (<<"a">>)>>
    /\ lastOp.r = Ok(Sym(<<"'">>))

\* the tokens from position i on close every bracket they open, in the right
\* order, and close none that is not open; open holds the closers awaited
Closer == <<"(">> :> <<")">> @@ <<"[">> :> <<"]">> @@ <<"{">> :> <<"}">>
RECURSIVE Balanced(_, _, _)
Balanced(tokens, i, open) ==
    IF i > Len(tokens) THEN open = <<>>
    ELSE IF tokens[i] \in DOMAIN Closer
         THEN Balanced(tokens, i + 1, <<Closer[tokens[i]]>> \o open)
    ELSE IF tokens[i] \in {<<")">>, <<"]">>, <<"}">>}
         THEN /\ open # <<>>
              /\ Head(open) = tokens[i]
              /\ Balanced(tokens, i + 1, Tail(open))
    ELSE Balanced(tokens, i + 1, open)

(* C22 as stated: read_str returns a ReadError for every input whose         *)
(* brackets are unbalanced: an opener without its closer, a closer of the    *)
(* wrong kind, or a closer that no opener matches.                           *)
UnbalancedIsReadError ==
    RtText("read_str") /\ ~Balanced(lastOp.tokens, 1, <<>>) =>
        lastOp.r.k = "err" /\ lastOp.r.e.kind = "ReadErr"

\* the text a ) has been read as the symbol a, the closer left unread
DanglingCloserIgnored ==
    /\ RtText("read_str")
    /\ lastOp.s = <<"a", " ", ")">>
    /\ lastOp.tokens = <<(<<"a">>), (<<")">>)>>
    /\ lastOp.r = Ok(Sym(<<"a">>))

\* the number of tokens between the braces of a text that is one map literal
IsMapLiteral(tokens) ==
    /\ Len(tokens) >= 2
    /\ tokens[1] = <<"{">>
    /\ tokens[Len(tokens)] = <<"}">>
    /\ \A k \in 2..(Len(tokens) - 1) : tokens[k] \in {<<"a">>, <<"1">>}

(* C23 as stated: building a map from an odd number of forms fails with a    *)
(* ReadError and produces no map, for a map literal with an odd number of    *)
(* forms between the braces and for hash-map called with an odd number of    *)
(* arguments.                                                                *)
OddMapIsReadError ==
    /\ (RtText("read_str") /\ IsMapLiteral(lastOp.tokens)
            /\ Len(lastOp.tokens) % 2 = 1 =>
          lastOp.r.k = "err" /\ lastOp.r.e.kind = "ReadErr")
    /\ (RtAt("hash-map") /\ Len(lastOp.args) % 2 = 1 =>
          lastOp.r.k = "err" /\ lastOp.r.e.kind = "ReadErr")

\* the text { a } has been read with the error Generic("Odd number of
\* arguments")
OddMapIsGenericError ==
    /\ RtText("read_str")
    /\ lastOp.tokens = <<(<<"{">>), (<<"a">>), (<<"}">>)>>
    /\ lastOp.r = Err(MalErr("Generic", "Odd number of arguments"))

(* C24 as stated: = on two atoms is true exactly when they are the same      *)
(* cell: with a and b two atoms holding 0 and d bound to the atom of a,      *)
(* (= a a), (let* (a (atom 0)) (= a a)) and (= a d) are true and (= a b) is  *)
(* false.                                                                    *)
AtomEqualityIsIdentity ==
    prog.name = "atom_eq" =>
        /\ OutIs(3, Ok(Bool(TRUE)))
        /\ OutIs(4, Ok(Bool(FALSE)))
        /\ OutIs(5, Ok(Bool(TRUE)))
        /\ OutIs(7, Ok(Bool(TRUE)))

\* (= a a), (= a b), the let* form and (= a d) have all returned false, the
\* contents of a and b being equal
AtomNotEqualToItself ==
    /\ prog.name = "atom_eq"
    /\ Len(out) = 8
    /\ out[1] = Ok(Atom(1))
    /\ out[6] = Ok(Atom(1))
    /\ out[3] = Ok(Bool(FALSE))
    /\ out[4] = Ok(Bool(FALSE))
    /\ out[5] = Ok(Bool(FALSE))
    /\ out[7] = Ok(Bool(FALSE))
    /\ out[8] = Ok(Bool(TRUE))

\* the sentinel occurs in the text s; it occurs in a symbol's name or after the
\* first character of a string of the value v
HasSentinel(s) == \E k \in 1..Len(s) : s[k] = KEYWORD_PREFIX
RECURSIVE ShowsSentinel(_)
ShowsSentinel(v) ==
    CASE v.t = "sym" -> HasSentinel(v.n)
      [] v.t = "str" -> v.s # <<>> /\ HasSentinel(Tail(v.s))
      [] IsSeqVal(v) -> \E k \in 1..Len(v.l) : ShowsSentinel(v.l[k])
      [] OTHER -> FALSE

(* C25 as stated: the keyword sentinel never becomes visible: no value made  *)
(* from a keyword by seq, symbol, str, keyword, first and list prints with   *)
(* the sentinel in it, and no resulting string or symbol has the sentinel as *)
(* content.                                                                  *)
SentinelNeverVisible ==
    /\ (RtStage("pr_str") => ~HasSentinel(lastOp.s))
    /\ (RtStage("value") => ~ShowsSentinel(lastOp.v))

\* (symbol :a) is the symbol whose name is the sentinel and a, and it has
\* been printed with the sentinel
SymbolOfKeywordShowsSentinel ==
    /\ RtStage("pr_str")
    /\ lastOp.made = 1
    /\ lastOp.v = Sym(<<KEYWORD_PREFIX, "a">>)
    /\ lastOp.s = <<KEYWORD_PREFIX, "a">>

\* the sum 1 + .. + n
RECURSIVE SumTo(_)
SumTo(n) == IF n = 0 THEN 0 ELSE n + SumTo(n - 1)

(* C26: (apply f a1 .. an seq) with seq a list or vector (s1 .. sm) invokes  *)
(* f exactly once with a1 .. an s1 .. sm in this order, for n in 0..MaxN and *)
(* m in {0, 2}; when the last argument is no list or vector, or is missing,  *)
(* apply returns an error and f is not invoked.  f records each invocation   *)
(* and its arguments in an atom.                                             *)
ApplyPreservesOrder ==
    prog.name = "apply" =>
        LET short == List(Ints(prog.n))
            long == List(Ints(prog.n) \o <<MalInt(8), MalInt(9)>>)
            calls == Ok(List(<<long, long, short>>))
        IN  /\ OutIs(3, Ok(short))
            /\ OutIs(4, Ok(long))
            /\ OutIs(5, Ok(long))
            /\ OutIs(6, calls)
            /\ OutIs(7, FunctionErr("Expected a list of args"))
            /\ OutIs(8, FunctionErr("Expected a list of args"))
            /\ OutIs(9, calls)
            /\ OutIs(10, Ok(MalInt(SumTo(prog.n) + 17)))

\* g has been applied to MaxN arguments and a list of two, and has recorded
\* them in this order
ApplyRecordedInOrder ==
    /\ prog.name = "apply"
    /\ prog.n = MaxN
    /\ Len(out) = 4
    /\ out[4] = Ok(List(Ints(MaxN) \o <<MalInt(8), MalInt(9)>>))
    /\ cells = <<List(<<List(Ints(MaxN) \o <<MalInt(8), MalInt(9)>>),
                        List(Ints(MaxN))>>)>>

(* C27: an error that no try* catches reaches the driver.  Interactively    *)
(* the driver outputs it and goes on with the next line in the same root    *)
(* environment: the binding x and the N updates of the atom c made by the   *)
(* failed line before its throw are seen by the lines that follow, also     *)
(* after a second failing line, and the driver never exits.  Started on a   *)
(* file, the driver exits with code 1 after it printed the error, the       *)
(* updates made before it in place, and with code 0, printing nothing, when *)
(* load-file succeeds.                                                      *)
ErrorReachesDriver ==
    /\ prog.name = "uncaught" =>
           /\ OutIs(2, Err(Throw(Str("boom"))))
           /\ OutIs(3, Ok(MalInt(7)))
           /\ OutIs(4, Ok(MalInt(prog.n)))
           /\ OutIs(5, NotFound("zz"))
           /\ OutIs(6, Ok(List(<<MalInt(7), MalInt(prog.n)>>)))
    /\ ~ScriptMode => status \in {"run", "panic"}
    /\ prog.name = "script_err" =>
           /\ status \in {"run", "exit1"}
           /\ out = IF status = "exit1" THEN <<Err(Throw(Str("boom")))>> ELSE <<>>
           /\ status = "exit1" => cells = <<MalInt(prog.n)>> /\ stack = <<>>
    /\ prog.name = "script_ok" =>
           /\ status \in {"run", "exit0"}
           /\ out = <<>>
           /\ status = "exit0" => cells = <<MalInt(prog.n)>> /\ stack = <<>>

\* the line after the failed one has read the binding and the atom updates
\* that the failed line made
NextLineSeesFailedLineEffects ==
    /\ prog.name = "uncaught"
    /\ prog.n = MaxN
    /\ Len(out) = 4
    /\ out[2] = Err(Throw(Str("boom")))
    /\ out[3] = Ok(MalInt(7))
    /\ out[4] = Ok(MalInt(MaxN))

\* the driver started on a failing file has exited with code 1
ScriptExitedWithOne == prog.name = "script_err" /\ prog.n = MaxN /\ status = "exit1"

\* the driver started on a good file has exited with code 0
ScriptExitedWithZero == prog.name = "script_ok" /\ prog.n = MaxN /\ status = "exit0"

(* C28: defmacro! binds the macro in the environment in which the defmacro!  *)
(* form is evaluated, as def! would: with f defined at the root and          *)
(* (defmacro! m f) evaluated in a let* body, m is bound in the let* frame    *)
(* and the root environment, which f captured, gains no binding m.           *)
DefmacroBindsInCurrentEnv ==
    prog.name = "defmacro_let" /\ Len(out) >= 2 /\ Len(out) <= 3 =>
        /\ "m" \notin DOMAIN envs[1].data
        /\ "m" \in DOMAIN envs[2].data
        /\ OutIs(3, NotFound("m"))

\* after (let* (z 1) (do (defmacro! m f) (m 5))) the root environment binds m
\* to the macro, the let* frame binds z alone, and (m 6) expands at the root
DefmacroBoundInCapturedEnv ==
    /\ prog.name = "defmacro_let"
    /\ Len(out) = 3
    /\ out[2] = Ok(MalInt(5))
    /\ out[3] = Ok(MalInt(6))
    /\ DOMAIN envs[2].data = {"z"}
    /\ envs[2].outer = 1
    /\ "m" \in DOMAIN envs[1].data
    /\ envs[1].data["m"] = MalFunction(List(<<Sym("x")>>), Sym("x"), 1, TRUE)

(* C29: when the function passed to swap! returns an error (a throw, an     *)
(* unbound symbol, the error of a builtin), swap! returns that error and    *)
(* the atom keeps the value it had before the call; when the function      *)
(* updated the atom itself (reset!, a completed inner swap!, a reset!      *)
(* inside an inner swap! that then failed) before it failed, the atom      *)
(* holds that last completed update.  A try* around the swap! catches the  *)
(* error as any other.                                                     *)
FailedSwapKeepsAtom ==
    prog.name = "swap_fail" =>
        /\ OutIs(2, Err(Throw(MalInt(1))))
        /\ OutIs(3, Ok(MalInt(1)))
        /\ OutIs(4, Err(Throw(Str("e"))))
        /\ OutIs(5, Ok(MalInt(5)))
        /\ OutIs(6, NotFound("zz"))
        /\ OutIs(7, Ok(MalInt(5 + prog.n)))
        /\ OutIs(8, Err(Throw(Str("in"))))
        /\ OutIs(9, Ok(MalInt(100)))
        /\ OutIs(10, FunctionErr("Cannot deref a non-atom"))
        /\ OutIs(11, Ok(MalInt(100)))
        /\ OutIs(12, Ok(MalInt(9)))
        /\ OutIs(13, Ok(MalInt(100)))
        /\ Len(cells) <= 1
        /\ Len(out) \in {1, 2} => cells = <<MalInt(1)>>

\* a swap! whose function threw after a completed inner swap! has returned
\* the error, and the atom holds the inner update
FailedSwapAfterInnerUpdate ==
    /\ prog.name = "swap_fail"
    /\ prog.n = MaxN
    /\ Len(out) = 6
    /\ out[6] = NotFound("zz")
    /\ cells = <<MalInt(5 + MaxN)>>

\* keys k and k2 with (= k k2) true have been looked up or associated
RtEqualKeys(op) == RtAt(op) /\ MalEq(lastOp.key, lastOp.key2)

(* C30: map lookup agrees with =.  For keys k and k2 with (= k k2) true,     *)
(* (get (assoc m k v) k2) is v, (contains? (assoc m k v) k2) is true, and    *)
(* (assoc (assoc m k v) k2 w) has as many entries as (assoc m k v): the      *)
(* entry under k is replaced.  k a list and k2 a vector with the same        *)
(* elements is one of the cases.                                             *)
MapLookupAgreesWithEq ==
    /\ RtEqualKeys("get") => lastOp.r = Ok(lastOp.val)
    /\ RtEqualKeys("contains?") => lastOp.r = Ok(Bool(TRUE))
    /\ RtEqualKeys("assoc2") =>
           /\ lastOp.r.k = "ok"
           /\ Cardinality(DOMAIN lastOp.r.v.m) = Cardinality(DOMAIN lastOp.m2.m)
           /\ get(lastOp.r.v, lastOp.key) = Ok(MalInt(8))

\* (get (assoc {} (list 1) 7) [1]) is nil although (= (list 1) [1]) is true
VectorKeyMissesListKey ==
    /\ RtAt("get")
    /\ lastOp.m = HashMap(<<>>)
    /\ lastOp.key = List(<<MalInt(1)>>)
    /\ lastOp.key2 = Vector(<<MalInt(1)>>)
    /\ MalEq(lastOp.key, lastOp.key2)
    /\ lastOp.r = Ok(Nil)

====
